---- MODULE Spec2Model ----
(***************************************************************************)
(* A model of the placement driver's RaftCluster (server/cluster.go, held  *)
(* in src/server/config/config.go from line 1000 on): the region cache,    *)
(* the metadata store, the store table, the region heartbeat path and the  *)
(* store administration operations.                                        *)
(*                                                                         *)
(* The package core (BasicCluster: the region index, PutRegion,            *)
(* GetOverlaps, the per-store counters) is not among the source files; it  *)
(* is modelled from sections 3 and 4.1 of the specification.               *)
(***************************************************************************)
EXTENDS Integers, FiniteSets, Sequences, TLC

\* ------------------------------------------------------------------ bounds
MaxRegionID == 3
MaxKey == 1
MaxVersion == 2
MaxConfVer == 2
MaxStoreID == 2
MaxAddress == 2
MaxFlow == 1
MaxStats == 1
MaxCollected == 2
MaxQueued == 1
MaxWeight == 2
MaxLimit == 2
MaxScheduleStore == 3
MaxDownTime == 1
MaxSnap == 1
MaxPending == 2
MaxPeerID == 1
MaxReplicas == 2
MaxHits == 1
MaxPuts == 302
MaxStarts == 2

\* -------------------------------------------------------- program constants
\* capacity of the changedRegions channel
defaultChangedRegionsLimit == 10000
\* the ratios, in tenths
RatioOne == 10
defaultTolerantSizeRatio == 0
defaultLowSpaceRatio == 8
defaultHighSpaceRatio == 6

\* the tries of one scheduleImpl call
balanceRegionRetryLimit == 10
\* hitsStoreCountThreshold is 30 * balanceRegionRetryLimit
hitsStoreCountThreshold == 300
\* hitsStoreTTL, in minutes
hitsStoreTTL == 5

RegionIDs == 1..MaxRegionID
StoreIDs == 1..MaxStoreID
Addresses == 1..MaxAddress
\* Key 0 is the empty key: as a start key it is -infinity, as an end key
\* +infinity.
Keys == 0..MaxKey

VARIABLES
    regions,        \* core.BasicCluster: region id -> RegionInfo (the cache)
    stores,         \* core.BasicCluster: store id -> StoreInfo
    kvRegions,      \* core.Storage: region id -> metapb.Region
    kvStores,       \* core.Storage: store id -> metapb.Store
    changedRegions, \* RaftCluster.changedRegions, the channel's queue
    prepareChecker, \* RaftCluster.prepareChecker: regions collected
    hotSpotCache,   \* RaftCluster.hotSpotCache: regions with a hot peer
    hb,             \* the heartbeat workers: each call's locals and position
    bg,             \* the background-jobs worker inside checkStores
    ret,            \* what the last completed call returned
    opt,            \* RaftCluster.opt: the schedule options in force
    operators,      \* OperatorController: the live operators
    hitsCounter,    \* balanceRegionScheduler.hitsCounter: key -> record
    sched,          \* the coordinator inside balanceRegionScheduler.Schedule
    running,        \* RaftCluster.running
    quit,           \* RaftCluster.quit: the channel is open or closed
    workers,        \* the goroutines start() launches and the caller of stop()
    mu,             \* RaftCluster's RWMutex: who holds the write lock
    probe           \* a function under check: its arguments and its result

vars == <<regions, stores, kvRegions, kvStores, changedRegions,
          prepareChecker, hotSpotCache, hb, bg, ret, opt, operators,
          hitsCounter, sched, running, quit, workers, mu, probe>>

\* what the region and store calls never touch
schedulerVars == <<opt, operators, hitsCounter, sched>>
lifeVars == <<running, quit, workers, mu>>

\* ------------------------------------------------------------ the options
\* config.ScheduleConfig and ReplicationConfig as the schedulers read them
DefaultOptions ==
    [regionScheduleLimit |-> MaxLimit, leaderScheduleLimit |-> MaxLimit,
     maxReplicas |-> MaxReplicas]

\* the goroutines of start(): runCoordinator, runBackgroundJobs, syncRegions
Workers == {"coordinator", "background", "syncer"}

NoProbe == [fn |-> "none"]

\* the stores the scheduler sees; 0 stands for a nil *core.StoreInfo
ScheduleStoreIDs == 1..MaxScheduleStore

\* hitsStoreBuilder.getKey (lines 798-807): "" for no source, "s<id>" for a
\* source alone, "s<id>->t<id>" for a source and a target.
getKey(source, target) ==
    IF source = 0 THEN ""
    ELSE IF target = 0 THEN "s" \o ToString(source)
    ELSE "s" \o ToString(source) \o "->t" \o ToString(target)

HitKeys ==
    { getKey(s, t) : s \in ScheduleStoreIDs, t \in {0} \cup ScheduleStoreIDs }

\* no record
NoRecord == [count |-> -1]

\* newHitsStoreBuilder (lines 790-796): the map is empty
NoHits == [k \in HitKeys |-> NoRecord]

\* ----------------------------------------------------------------- regions
NoRegion == [id |-> 0]
NoStore == [state |-> "None"]

ValidRange(s, e) == e = 0 \/ s < e

\* core.RegionInfo. A peer is named by its store (a region has at most one
\* peer per store); leader is the leader peer's store, 0 when unknown.
\* pending counts the down and pending peers, size stands for the approximate
\* size and keys, flow for the bytes and keys written and read.
RegionInfos ==
    { r \in [id : RegionIDs, startKey : Keys, endKey : Keys,
             version : 1..MaxVersion, confVer : 1..MaxConfVer,
             peers : (SUBSET StoreIDs) \ {{}}, leader : 0..MaxStoreID,
             pending : {0}, size : {0}, flow : 0..MaxFlow] :
        /\ ValidRange(r.startKey, r.endKey)
        /\ r.leader \in r.peers \cup {0} }

GetMeta(r) ==
    [id |-> r.id, startKey |-> r.startKey, endKey |-> r.endKey,
     version |-> r.version, confVer |-> r.confVer, peers |-> r.peers]

\* Two key ranges [start, end) intersect.
RangesIntersect(a, b) ==
    /\ (b.endKey = 0 \/ a.startKey < b.endKey)
    /\ (a.endKey = 0 \/ b.startKey < a.endKey)

GetRegion(cache, id) == cache[id]

\* core.BasicCluster.GetOverlaps: the cached regions intersecting region.
GetOverlaps(cache, region) ==
    { cache[i] : i \in { j \in RegionIDs :
        cache[j] # NoRegion /\ RangesIntersect(cache[j], region) } }

\* The regions PutRegion removes: the index is an ordered map keyed by start
\* key that holds no two intersecting ranges, so every cached region of
\* another id that intersects the new one leaves the index.
Evicted(cache, region) ==
    { item \in GetOverlaps(cache, region) : item.id # region.id }

\* core.BasicCluster.PutRegion: the cache afterwards.
PutRegion(cache, region) ==
    [i \in RegionIDs |->
        IF i = region.id THEN region
        ELSE IF cache[i] \in Evicted(cache, region) THEN NoRegion
        ELSE cache[i]]

GetStoreLeaderCount(cache, s) ==
    Cardinality({ i \in RegionIDs : cache[i] # NoRegion /\ cache[i].leader = s })

GetStoreRegionCount(cache, s) ==
    Cardinality({ i \in RegionIDs : cache[i] # NoRegion /\ s \in cache[i].peers })

\* updateStoreStatusLocked for every store of ids: the store's cached counters
\* are recomputed from the region index; an unknown store id is skipped.
UpdateStoreStatus(st, cache, ids) ==
    [s \in StoreIDs |->
        IF s \in ids /\ st[s] # NoStore
        THEN [st[s] EXCEPT !.leaderCount = GetStoreLeaderCount(cache, s),
                           !.regionCount = GetStoreRegionCount(cache, s)]
        ELSE st[s]]

\* ------------------------------------------------- the heartbeat's decisions
\* mutant: a new region is also refused by a cached region of its own version
StaleByOverlapOrEqual(cache, region) ==
    /\ cache[region.id] = NoRegion
    /\ \E item \in GetOverlaps(cache, region) : region.version <= item.version

\* new region: a cached region of a greater version intersects it
StaleByOverlap(cache, region) ==
    /\ GetRegion(cache, region.id) = NoRegion
    /\ \E item \in GetOverlaps(cache, region) : region.version < item.version

\* mutant: only the version is compared
EpochStaleVersionOnly(region, origin) ==
    region.version < origin.version

\* mutant: the epochs are compared in lexicographic order
EpochStaleLexicographic(region, origin) ==
    \/ region.version < origin.version
    \/ region.version = origin.version /\ region.confVer < origin.confVer

\* cached region: "Region meta is stale, return an error."
EpochStale(region, origin) ==
    region.version < origin.version \/ region.confVer < origin.confVer

\* mutant: a change of leader is saved too
SaveKVOnLeader(region, origin) ==
    IF origin = NoRegion THEN TRUE
    ELSE \/ region.version > origin.version
         \/ region.confVer > origin.confVer
         \/ region.leader # origin.leader
         \/ Cardinality(region.peers) # Cardinality(origin.peers)

\* saveKV (lines 1313-1368)
SaveKV(region, origin) ==
    IF origin = NoRegion THEN TRUE
    ELSE \/ region.version > origin.version
         \/ region.confVer > origin.confVer
         \/ Cardinality(region.peers) # Cardinality(origin.peers)

\* mutant: a risen epoch alone does not reach the cache
SaveCacheButEpoch(region, origin) ==
    IF origin = NoRegion THEN TRUE
    ELSE \/ region.leader # origin.leader
         \/ region.pending > 0
         \/ origin.pending > 0
         \/ Cardinality(region.peers) # Cardinality(origin.peers)
         \/ region.size # origin.size
         \/ region.flow # origin.flow

\* saveCache (lines 1313-1378)
SaveCache(region, origin) ==
    IF origin = NoRegion THEN TRUE
    ELSE \/ region.version > origin.version
         \/ region.confVer > origin.confVer
         \/ region.leader # origin.leader
         \/ region.pending > 0
         \/ origin.pending > 0
         \/ Cardinality(region.peers) # Cardinality(origin.peers)
         \/ region.size # origin.size
         \/ region.flow # origin.flow

\* mutant: every heartbeat is taken for the first of its region
IsNewAlways(region, origin) == TRUE

\* isNew (lines 1313-1350)
IsNew(region, origin) ==
    IF origin = NoRegion THEN TRUE
    ELSE region.leader # origin.leader /\ origin.leader = 0

\* CheckWriteStatus and CheckReadStatus: the hot-cache items of a heartbeat.
\* A region reporting flow gets an item that inserts or refreshes its entry,
\* a region with an entry and no flow one that removes it.
CheckStatus(hot, region) ==
    IF region.flow > 0 THEN {[regionID |-> region.id, add |-> TRUE]}
    ELSE IF region.id \in hot THEN {[regionID |-> region.id, add |-> FALSE]}
    ELSE {}

\* hotSpotCache.Update for every item
UpdateHot(hot, items) ==
    (hot \cup { it.regionID : it \in { x \in items : x.add } })
        \ { it.regionID : it \in { x \in items : ~x.add } }

\* prepareChecker.collect: one more region seen (the count saturates at the
\* model's bound).
Collect(n) == IF n < MaxCollected THEN n + 1 ELSE n

\* mutant: the region is queued whatever the channel holds
SendChangedAlways(ch, region) == Append(ch, region.id)

\* "select { case c.changedRegions <- region: default: }"
SendChanged(ch, region) ==
    IF Len(ch) < defaultChangedRegionsLimit THEN Append(ch, region.id) ELSE ch

\* SaveRegion (lines 1380-1388): the write is lost when the store fails.
AfterSave(kv, region, origin, saveOK) ==
    IF SaveKV(region, origin) /\ saveOK
    THEN [kv EXCEPT ![region.id] = GetMeta(region)]
    ELSE kv

\* mutant: a region whose save failed is not notified
AfterSendOnSuccess(ch, region, origin, saveOK) ==
    IF SaveKV(region, origin) /\ saveOK THEN SendChanged(ch, region) ELSE ch

\* lines 1380-1394: the notification is sent whenever saveKV is set, after
\* SaveRegion, whose error is logged and nothing more.
AfterSend(ch, region, origin, saveOK) ==
    IF SaveKV(region, origin) THEN SendChanged(ch, region) ELSE ch

\* mutant: the evicted regions stay in the metadata store
AfterDeleteNothing(kv, overlaps, delOK) == kv

\* DeleteRegion for every evicted region (lines 1407-1416)
AfterDelete(kv, overlaps, delOK) ==
    [i \in RegionIDs |->
        IF delOK /\ (\E item \in overlaps : item.id = i) THEN NoRegion
        ELSE kv[i]]

\* lines 1395-1397: nothing to write
NothingToDo(region, origin, items) ==
    items = {} /\ ~SaveCache(region, origin) /\ ~IsNew(region, origin)

\* The section under the write lock (lines 1399-1446), on the cluster as it
\* is when the lock is taken; origin and items are those read earlier.
WriteSection(cache, st, kv, prep, hot, region, origin, items, delOK) ==
    LET sc == SaveCache(region, origin)
        overlaps == IF sc THEN Evicted(cache, region) ELSE {}
        cache1 == IF sc THEN PutRegion(cache, region) ELSE cache
        touched == (IF origin # NoRegion THEN origin.peers ELSE {})
                       \cup region.peers
    IN  [regions |-> cache1,
         stores |-> IF sc THEN UpdateStoreStatus(st, cache1, touched) ELSE st,
         kvRegions |-> AfterDelete(kv, overlaps, delOK),
         prepareChecker |-> IF IsNew(region, origin) THEN Collect(prep) ELSE prep,
         hotSpotCache |-> UpdateHot(hot, items),
         overlaps |-> overlaps]

Idle == [pc |-> "idle"]
\* A call's return: the error kind; for RegionIsStale whether the cached
\* region it names is the origin or an overlapping region; for a heartbeat
\* that wrote the cache the number of regions it evicted.
RetOK(evicted) == [err |-> "ok", existing |-> "none", evicted |-> evicted]
RetStale(existing) == [err |-> "RegionIsStale", existing |-> existing, evicted |-> 0]
RetErr(kind) == [err |-> kind, existing |-> "none", evicted |-> 0]

\* processRegionHeartbeat's return value on the cluster as the call finds it.
HeartbeatResult(cache, region) ==
    IF StaleByOverlap(cache, region) THEN RetStale("overlap")
    ELSE IF GetRegion(cache, region.id) # NoRegion
            /\ EpochStale(region, GetRegion(cache, region.id))
    THEN RetStale("origin")
    ELSE IF SaveCache(region, GetRegion(cache, region.id))
    THEN RetOK(Cardinality(Evicted(cache, region)))
    ELSE RetOK(0)

\* processRegionHeartbeat (lines 1295-1447) run from its first line to its
\* return with no other call in between: what it returns and what it leaves.
HeartbeatOutcomeOn(ch, region, saveOK, delOK) ==
    LET origin == GetRegion(regions, region.id)
        items == CheckStatus(hotSpotCache, region)
        w == WriteSection(regions, stores,
                          AfterSave(kvRegions, region, origin, saveOK),
                          prepareChecker, hotSpotCache, region, origin, items, delOK)
        now == [ret |-> HeartbeatResult(regions, region),
                regions |-> regions,
                stores |-> stores,
                kvRegions |-> kvRegions,
                changedRegions |-> ch,
                prepareChecker |-> prepareChecker,
                hotSpotCache |-> hotSpotCache]
    IN  IF now.ret.err = "RegionIsStale" THEN now
        ELSE IF NothingToDo(region, origin, items)
        THEN [now EXCEPT
                 !.kvRegions = AfterSave(kvRegions, region, origin, saveOK),
                 !.changedRegions = AfterSend(ch, region, origin, saveOK)]
        ELSE [now EXCEPT
                 !.changedRegions = AfterSend(ch, region, origin, saveOK),
                 !.regions = w.regions,
                 !.stores = w.stores,
                 !.kvRegions = w.kvRegions,
                 !.prepareChecker = w.prepareChecker,
                 !.hotSpotCache = w.hotSpotCache]

\* ... with the channel as the call finds it
HeartbeatOutcome(region, saveOK, delOK) ==
    HeartbeatOutcomeOn(changedRegions, region, saveOK, delOK)

ProcessRegionHeartbeat(region, saveOK, delOK) ==
    LET out == HeartbeatOutcome(region, saveOK, delOK)
    IN  /\ \A i \in DOMAIN hb : hb[i].pc = "idle"
        /\ ret' = out.ret
        /\ regions' = out.regions
        /\ stores' = out.stores
        /\ kvRegions' = out.kvRegions
        /\ changedRegions' = out.changedRegions
        /\ prepareChecker' = out.prepareChecker
        /\ hotSpotCache' = out.hotSpotCache
        /\ UNCHANGED <<kvStores, hb, bg, schedulerVars, lifeVars, probe>>

\* syncRegions: the region syncer takes the next changed region.
SyncRegions ==
    /\ changedRegions # <<>>
    /\ changedRegions' = Tail(changedRegions)
    /\ UNCHANGED <<regions, stores, kvRegions, kvStores, prepareChecker,
                   hotSpotCache, hb, bg, ret,
                   schedulerVars, lifeVars, probe>>

\* ------------------------------------------------------------------ stores
\* A store's labels: for every label key its value, which may be the empty
\* string, or NoLabel when the store has no label of that key.
LabelKeys == {"zone", "rack"}
LabelValues == {"", "z1"}
NoLabel == "(none)"
LabelSets == [LabelKeys -> LabelValues \cup {NoLabel}]
NoLabels == [k \in LabelKeys |-> NoLabel]

\* StoreInfo.GetLabels: the keys of the store's labels
GetLabelKeys(labels) == { k \in LabelKeys : labels[k] # NoLabel }

\* StoreInfo.GetLabelValue: the empty string when the key has no label
GetLabelValue(labels, k) == IF labels[k] = NoLabel THEN "" ELSE labels[k]

\* StoreInfo.MergeLabels: a submitted label replaces the stored label of its
\* key, the other stored labels are kept.
MergeLabels(stored, submitted) ==
    [k \in LabelKeys |->
        IF submitted[k] # NoLabel THEN submitted[k] ELSE stored[k]]

\* core.NewStoreInfo
StoreInfo(state, address) ==
    [state |-> state, address |-> address, labels |-> NoLabels,
     leaderCount |-> 0, regionCount |-> 0, stats |-> 0, weight |-> 1]

\* metapb.Store
StoreMeta(s) == [state |-> s.state, address |-> s.address, labels |-> s.labels]

\* The cluster after start(): no region is cached, no call is in progress.
InitRegions ==
    /\ regions = [i \in RegionIDs |-> NoRegion]
    /\ kvRegions = [i \in RegionIDs |-> NoRegion]
    /\ changedRegions = <<>>
    /\ prepareChecker = 0
    /\ hotSpotCache = {}
    /\ hb = [w \in 1..2 |-> Idle]
    /\ bg = Idle
    /\ ret = RetOK(0)

\* ... on a cluster whose stores are all Up, each at its own address.
InitStoresUp ==
    /\ stores = [s \in StoreIDs |-> StoreInfo("Up", s)]
    /\ kvStores = [s \in StoreIDs |-> StoreMeta(StoreInfo("Up", s))]

\* ... the options at their values, no operator live, no hit recorded, the
\* coordinator outside Schedule, the three workers in their loops.
InitOthers ==
    /\ opt = DefaultOptions
    /\ operators = {}
    /\ hitsCounter = NoHits
    /\ sched = Idle
    /\ running = TRUE
    /\ quit = "open"
    /\ workers = [w \in Workers |-> "loop"]
    /\ mu = "free"
    /\ probe = NoProbe

Init == InitRegions /\ InitStoresUp /\ InitOthers

\* The model lets a heartbeat in while fewer than MaxQueued notifications
\* wait for the syncer.
SyncerKeepsUp == Len(changedRegions) < MaxQueued

\* ------------------------------------------- region heartbeats, one at a time
\* Heartbeats of every region id and key range, the metadata store healthy.
HeartbeatInputs ==
    { r \in RegionInfos : r.leader = 1 /\ 1 \in r.peers /\ r.flow = 0 }

\* Section 3: a region's version increases on split and merge, so a store
\* reports another key range for a region only with another version.
KeyRangeFollowsVersion(cache, region) ==
    (cache[region.id] # NoRegion /\ cache[region.id].version = region.version)
        => /\ cache[region.id].startKey = region.startKey
           /\ cache[region.id].endKey = region.endKey

Heartbeat ==
    \E region \in HeartbeatInputs :
        /\ SyncerKeepsUp
        /\ KeyRangeFollowsVersion(regions, region)
        /\ ProcessRegionHeartbeat(region, TRUE, TRUE)

Next ==
    \/ Heartbeat
    \/ SyncRegions

Spec == Init /\ [][Next]_vars

\* Heartbeats of one region over the whole key space, with every leader and
\* flow, the metadata store failing or not.
SingleRegionInputs ==
    { r \in RegionInfos : r.id = 1 /\ r.startKey = 0 /\ r.endKey = 0 }

HeartbeatOfRegion ==
    \E region \in SingleRegionInputs, saveOK \in BOOLEAN :
        SyncerKeepsUp /\ ProcessRegionHeartbeat(region, saveOK, TRUE)

NextRegion ==
    \/ HeartbeatOfRegion
    \/ SyncRegions

SpecRegion == Init /\ [][NextRegion]_vars

\* ---------------------------------- region heartbeats, nobody on the channel
\* The region last reported before the channel filled up.
LastSent ==
    [id |-> 1, startKey |-> 0, endKey |-> 0, version |-> 1, confVer |-> 1,
     peers |-> {1}, leader |-> 1, pending |-> 0, size |-> 0, flow |-> 0]

\* The cluster after start() and defaultChangedRegionsLimit - 1 heartbeats of
\* region 1 that each reported another number of peers (so each was saved and
\* sent, lines 1380-1394), the last with the peer on store 1 alone, while no
\* region syncer receives from the channel made at line 1116.
InitUnreceived ==
    /\ regions = [i \in RegionIDs |-> IF i = 1 THEN LastSent ELSE NoRegion]
    /\ kvRegions = [i \in RegionIDs |-> IF i = 1 THEN GetMeta(LastSent) ELSE NoRegion]
    /\ changedRegions = [i \in 1..(defaultChangedRegionsLimit - 1) |-> 1]
    /\ prepareChecker = 1
    /\ hotSpotCache = {}
    /\ hb = [w \in 1..2 |-> Idle]
    /\ bg = Idle
    /\ ret = RetOK(0)
    /\ stores = UpdateStoreStatus([s \in StoreIDs |-> StoreInfo("Up", s)],
                                  regions, StoreIDs)
    /\ kvStores = [s \in StoreIDs |-> StoreMeta(StoreInfo("Up", s))]
    /\ InitOthers

HeartbeatUnreceived ==
    \E region \in SingleRegionInputs, saveOK \in BOOLEAN :
        ProcessRegionHeartbeat(region, saveOK, TRUE)

NextUnreceived == HeartbeatUnreceived

SpecUnreceived == InitUnreceived /\ [][NextUnreceived]_vars

\* ------------------------------------- region heartbeats, two at a time
\* Lines 1296-1326: under the read lock the call reads the cached region of
\* its id, the overlapping regions and the hot-cache items; the lock released,
\* it compares the epochs.
HBRead(w, region) ==
    LET origin == GetRegion(regions, region.id)
    IN  /\ hb[w].pc = "idle"
        /\ UNCHANGED <<regions, stores, kvRegions, kvStores, changedRegions,
                       prepareChecker, hotSpotCache, bg,
                   schedulerVars, lifeVars, probe>>
        /\ IF StaleByOverlap(regions, region)
           THEN ret' = RetStale("overlap") /\ UNCHANGED hb
           ELSE IF origin # NoRegion /\ EpochStale(region, origin)
           THEN ret' = RetStale("origin") /\ UNCHANGED hb
           ELSE /\ hb' = [hb EXCEPT ![w] =
                            [pc |-> "save", region |-> region, origin |-> origin,
                             items |-> CheckStatus(hotSpotCache, region)]]
                /\ UNCHANGED ret

\* Lines 1380-1397, no lock held: SaveRegion, the notification, and the
\* return of a call that has nothing to write.
HBSave(w, saveOK) ==
    /\ hb[w].pc = "save"
    /\ kvRegions' = AfterSave(kvRegions, hb[w].region, hb[w].origin, saveOK)
    /\ changedRegions' = AfterSend(changedRegions, hb[w].region, hb[w].origin,
                                 saveOK)
    /\ UNCHANGED <<regions, stores, kvStores, prepareChecker, hotSpotCache, bg,
                   schedulerVars, lifeVars, probe>>
    /\ IF NothingToDo(hb[w].region, hb[w].origin, hb[w].items)
       THEN hb' = [hb EXCEPT ![w] = Idle] /\ ret' = RetOK(0)
       ELSE hb' = [hb EXCEPT ![w].pc = "write"] /\ UNCHANGED ret

\* Lines 1399-1446: the section under the write lock, with the origin and
\* the flags computed from what HBRead read.
HBWrite(w, delOK) ==
    LET out == WriteSection(regions, stores, kvRegions, prepareChecker,
                            hotSpotCache, hb[w].region, hb[w].origin,
                            hb[w].items, delOK)
    IN  /\ hb[w].pc = "write"
        /\ regions' = out.regions
        /\ stores' = out.stores
        /\ kvRegions' = out.kvRegions
        /\ prepareChecker' = out.prepareChecker
        /\ hotSpotCache' = out.hotSpotCache
        /\ hb' = [hb EXCEPT ![w] = Idle]
        /\ ret' = RetOK(Cardinality(out.overlaps))
        /\ UNCHANGED <<kvStores, changedRegions, bg,
                   schedulerVars, lifeVars, probe>>

\* Heartbeats of region 1 in every epoch, sent by two stores' streams.
ConcurrentInputs ==
    { r \in SingleRegionInputs : r.peers = {1} /\ r.leader = 1 /\ r.flow = 0 }

ReadHeartbeat ==
    \E w \in DOMAIN hb, region \in ConcurrentInputs : HBRead(w, region)

SaveHeartbeat ==
    \E w \in DOMAIN hb, saveOK \in BOOLEAN :
        SyncerKeepsUp /\ HBSave(w, saveOK)

WriteHeartbeat ==
    \E w \in DOMAIN hb : HBWrite(w, TRUE)

NextConcurrent ==
    \/ ReadHeartbeat
    \/ SaveHeartbeat
    \/ WriteHeartbeat
    \/ SyncRegions

SpecConcurrent == Init /\ [][NextConcurrent]_vars

\* ... and the same with a metadata store that never fails
SaveHeartbeatSaved ==
    \E w \in DOMAIN hb : SyncerKeepsUp /\ HBSave(w, TRUE)

NextConcurrentSaved ==
    \/ ReadHeartbeat
    \/ SaveHeartbeatSaved
    \/ WriteHeartbeat
    \/ SyncRegions

SpecConcurrentSaved == Init /\ [][NextConcurrentSaved]_vars

\* ------------------------------------- region heartbeats and the cluster lock
\* The RWMutex: the goroutines that hold the read lock, the one that holds
\* the write lock (0: none) and those blocked in Lock. A blocked Lock keeps
\* new readers out.
NoLocks == [readers |-> {}, writer |-> 0, waiting |-> {}]

\* line 1296: c.RLock()
HeartbeatRLock(w, region) ==
    /\ hb[w].pc = "idle"
    /\ mu.writer = 0 /\ mu.waiting = {}
    /\ mu' = [mu EXCEPT !.readers = @ \cup {w}]
    /\ hb' = [hb EXCEPT ![w] = [pc |-> "read", region |-> region]]
    /\ UNCHANGED <<regions, stores, kvRegions, kvStores, changedRegions,
                   prepareChecker, hotSpotCache, bg, ret, schedulerVars,
                   running, quit, workers, probe>>

\* mutant: the return at line 1302 is made with the read lock held
HeartbeatReadSectionKeepsLock(w) ==
    LET region == hb[w].region
        origin == GetRegion(regions, region.id)
    IN  /\ hb[w].pc = "read"
        /\ IF StaleByOverlap(regions, region)
           THEN /\ ret' = RetStale("overlap")
                /\ hb' = [hb EXCEPT ![w] = Idle]
                /\ mu' = mu
           ELSE /\ mu' = [mu EXCEPT !.readers = @ \ {w}]
                /\ IF origin # NoRegion /\ EpochStale(region, origin)
                   THEN ret' = RetStale("origin") /\ hb' = [hb EXCEPT ![w] = Idle]
                   ELSE /\ hb' = [hb EXCEPT ![w] =
                                    [pc |-> "save", region |-> region,
                                     origin |-> origin,
                                     items |-> CheckStatus(hotSpotCache, region)]]
                        /\ ret' = ret
        /\ UNCHANGED <<regions, stores, kvRegions, kvStores, changedRegions,
                       prepareChecker, hotSpotCache, bg, schedulerVars,
                       running, quit, workers, probe>>

\* lines 1297-1326: the read section; c.RUnlock() at line 1301 before the
\* return for an overlapping region, at line 1308 otherwise, and after it
\* the return for a stale epoch.
HeartbeatReadSection(w) ==
    LET region == hb[w].region
        origin == GetRegion(regions, region.id)
    IN  /\ hb[w].pc = "read"
        /\ mu' = [mu EXCEPT !.readers = @ \ {w}]
        /\ IF StaleByOverlap(regions, region)
           THEN ret' = RetStale("overlap") /\ hb' = [hb EXCEPT ![w] = Idle]
           ELSE IF origin # NoRegion /\ EpochStale(region, origin)
           THEN ret' = RetStale("origin") /\ hb' = [hb EXCEPT ![w] = Idle]
           ELSE /\ hb' = [hb EXCEPT ![w] =
                            [pc |-> "save", region |-> region, origin |-> origin,
                             items |-> CheckStatus(hotSpotCache, region)]]
                /\ ret' = ret
        /\ UNCHANGED <<regions, stores, kvRegions, kvStores, changedRegions,
                       prepareChecker, hotSpotCache, bg, schedulerVars,
                       running, quit, workers, probe>>

\* lines 1380-1399, no lock held: SaveRegion, the notification, the return
\* of a call that has nothing to write, and otherwise the call of c.Lock().
HeartbeatSave(w) ==
    /\ hb[w].pc = "save"
    /\ kvRegions' = AfterSave(kvRegions, hb[w].region, hb[w].origin, TRUE)
    /\ changedRegions' = AfterSend(changedRegions, hb[w].region, hb[w].origin,
                                 TRUE)
    /\ IF NothingToDo(hb[w].region, hb[w].origin, hb[w].items)
       THEN hb' = [hb EXCEPT ![w] = Idle] /\ ret' = RetOK(0) /\ mu' = mu
       ELSE /\ hb' = [hb EXCEPT ![w].pc = "lock"]
            /\ mu' = [mu EXCEPT !.waiting = @ \cup {w}]
            /\ ret' = ret
    /\ UNCHANGED <<regions, stores, kvStores, prepareChecker, hotSpotCache, bg,
                   schedulerVars, running, quit, workers, probe>>

\* c.Lock() returns: nobody reads, nobody writes.
TakeLock(w) ==
    /\ w \in mu.waiting
    /\ mu.readers = {} /\ mu.writer = 0
    /\ mu' = [mu EXCEPT !.writer = w, !.waiting = @ \ {w}]
    /\ hb' = IF w \in DOMAIN hb THEN [hb EXCEPT ![w].pc = "write"] ELSE hb
    /\ UNCHANGED <<regions, stores, kvRegions, kvStores, changedRegions,
                   prepareChecker, hotSpotCache, bg, ret, schedulerVars,
                   running, quit, workers, probe>>

\* lines 1400-1446: the write section and the deferred c.Unlock()
HeartbeatWriteSection(w) ==
    LET out == WriteSection(regions, stores, kvRegions, prepareChecker,
                            hotSpotCache, hb[w].region, hb[w].origin,
                            hb[w].items, TRUE)
    IN  /\ hb[w].pc = "write"
        /\ regions' = out.regions
        /\ stores' = out.stores
        /\ kvRegions' = out.kvRegions
        /\ prepareChecker' = out.prepareChecker
        /\ hotSpotCache' = out.hotSpotCache
        /\ hb' = [hb EXCEPT ![w] = Idle]
        /\ mu' = [mu EXCEPT !.writer = 0]
        /\ ret' = RetOK(Cardinality(out.overlaps))
        /\ UNCHANGED <<kvStores, changedRegions, bg, schedulerVars, running,
                       quit, workers, probe>>

\* A call that takes the write lock for itself (SetStoreWeight, say),
\* made by goroutine w: it asks for the lock ...
WriterAsks(w) ==
    /\ w \notin mu.waiting /\ mu.writer # w
    /\ mu' = [mu EXCEPT !.waiting = @ \cup {w}]
    /\ UNCHANGED <<regions, stores, kvRegions, kvStores, changedRegions,
                   prepareChecker, hotSpotCache, hb, bg, ret, schedulerVars,
                   running, quit, workers, probe>>

\* ... and having had it gives it back.
WriterUnlocks(w) ==
    /\ mu.writer = w
    /\ mu' = [mu EXCEPT !.writer = 0]
    /\ UNCHANGED <<regions, stores, kvRegions, kvStores, changedRegions,
                   prepareChecker, hotSpotCache, hb, bg, ret, schedulerVars,
                   running, quit, workers, probe>>

\* Heartbeats of regions 1 and 2, each over the whole key space so that
\* they overlap, in every version.
OverlappingInputs ==
    { r \in RegionInfos : /\ r.id \in {1, 2} /\ r.startKey = 0 /\ r.endKey = 0
                          /\ r.confVer = 1 /\ r.peers = {1} /\ r.leader = 1
                          /\ r.flow = 0 }

\* goroutines 1 and 2 process heartbeats, goroutine 3 is the writer
InitLocks ==
    /\ InitRegions /\ InitStoresUp
    /\ opt = DefaultOptions
    /\ operators = {}
    /\ hitsCounter = NoHits
    /\ sched = Idle
    /\ running = TRUE
    /\ quit = "open"
    /\ workers = [w \in Workers |-> "loop"]
    /\ mu = NoLocks
    /\ probe = NoProbe

NextLocks ==
    \/ \E w \in {1, 2}, region \in OverlappingInputs : HeartbeatRLock(w, region)
    \/ \E w \in {1, 2} : HeartbeatReadSection(w)
    \/ \E w \in {1, 2} : SyncerKeepsUp /\ HeartbeatSave(w)
    \/ \E w \in 1..3 : TakeLock(w)
    \/ \E w \in {1, 2} : HeartbeatWriteSection(w)
    \/ WriterAsks(3)
    \/ WriterUnlocks(3)
    \/ SyncRegions

SpecLocks == InitLocks /\ [][NextLocks]_vars

\* Every goroutine that can take a step takes one.
LocksFair ==
    /\ \A w \in {1, 2} : WF_vars(HeartbeatReadSection(w))
    /\ \A w \in {1, 2} : WF_vars(SyncerKeepsUp /\ HeartbeatSave(w))
    /\ \A w \in 1..3 : WF_vars(TakeLock(w))
    /\ \A w \in {1, 2} : WF_vars(HeartbeatWriteSection(w))
    /\ WF_vars(WriterUnlocks(3))
    /\ WF_vars(SyncRegions)

SpecLocksFair == InitLocks /\ [][NextLocks]_vars /\ LocksFair

\* ---------------------------------------------------------- store calls
StoreStates == {"Up", "Offline", "Tombstone"}

\* putStoreLocked (lines 1885-1894): SaveStore, then the cache; a failed
\* SaveStore returns before the cache is written.
PutStoreLocked(id, store, saveOK) ==
    IF saveOK
    THEN /\ stores' = [stores EXCEPT ![id] = store]
         /\ kvStores' = [kvStores EXCEPT ![id] = StoreMeta(store)]
         /\ ret' = RetOK(0)
    ELSE /\ UNCHANGED <<stores, kvStores>>
         /\ ret' = RetErr("Storage")

StoreFrame ==
    UNCHANGED <<regions, kvRegions, changedRegions, prepareChecker,
                hotSpotCache, hb, bg,
                   schedulerVars, lifeVars, probe>>

\* putStore, lines 1719-1728: another store that is not a tombstone has the
\* address.
DuplicatedAddress(st, id, address) ==
    \E s \in StoreIDs :
        /\ st[s] # NoStore
        /\ st[s].state # "Tombstone"
        /\ s # id
        /\ st[s].address = address

\* mutant: a label with an empty value counts as a value
MissingLocationLabelAbsentOnly(labels, locationLabels) ==
    \E k \in locationLabels : labels[k] = NoLabel

\* putStore, lines 1745-1756: a configured location label has no value
MissingLocationLabel(labels, locationLabels) ==
    \E k \in locationLabels : GetLabelValue(labels, k) = ""

\* putStore, lines 1757-1767: a label's key is no configured location label
UnknownLabelKey(labels, locationLabels) ==
    \E k \in GetLabelKeys(labels) : k \notin locationLabels

\* putStore, lines 1730-1743: the store to be written
PutStoreInfo(st, id, address, labels) ==
    IF st[id] = NoStore
    THEN [StoreInfo("Up", address) EXCEPT !.labels = labels]
    ELSE [st[id] EXCEPT !.address = address,
                        !.labels = MergeLabels(st[id].labels, labels)]

\* putStore (lines 1702-1769) of a store whose id is not zero and whose
\* version is compatible, under the replication configuration locationLabels
\* and strict (GetLocationLabels, GetStrictlyMatchLabel) the call reads: what
\* it returns and what it leaves.
PutStoreOutcome(id, address, labels, locationLabels, strict, saveOK) ==
    LET s == PutStoreInfo(stores, id, address, labels)
        refused(kind) == [ret |-> RetErr(kind), stores |-> stores,
                          kvStores |-> kvStores]
    IN  IF DuplicatedAddress(stores, id, address)
        THEN refused("DuplicatedAddress")
        ELSE IF strict /\ MissingLocationLabel(s.labels, locationLabels)
        THEN refused("LabelKeyMissing")
        ELSE IF strict /\ UnknownLabelKey(s.labels, locationLabels)
        THEN refused("LabelKeyUnknown")
        ELSE IF ~saveOK
        THEN refused("Storage")
        ELSE [ret |-> RetOK(0),
              stores |-> [stores EXCEPT ![id] = s],
              kvStores |-> [kvStores EXCEPT ![id] = StoreMeta(s)]]

PutStoreLabels(id, address, labels, locationLabels, strict, saveOK) ==
    LET out == PutStoreOutcome(id, address, labels, locationLabels, strict, saveOK)
    IN  /\ StoreFrame
        /\ ret' = out.ret
        /\ stores' = out.stores
        /\ kvStores' = out.kvStores

\* putStore of a store that reports no label, the label check disabled
PutStore(id, address, saveOK) ==
    PutStoreLabels(id, address, NoLabels, {}, FALSE, saveOK)

\* mutant: the tombstone is not refused
RemoveStoreOfTombstone(id, saveOK) ==
    /\ StoreFrame
    /\ IF stores[id] = NoStore
       THEN ret' = RetErr("StoreNotFound") /\ UNCHANGED <<stores, kvStores>>
       ELSE IF stores[id].state = "Offline"
       THEN ret' = RetOK(0) /\ UNCHANGED <<stores, kvStores>>
       ELSE PutStoreLocked(id, [stores[id] EXCEPT !.state = "Offline"], saveOK)

\* RemoveStore (lines 1773-1797)
RemoveStore(id, saveOK) ==
    /\ StoreFrame
    /\ IF stores[id] = NoStore
       THEN ret' = RetErr("StoreNotFound") /\ UNCHANGED <<stores, kvStores>>
       ELSE IF stores[id].state = "Offline"
       THEN ret' = RetOK(0) /\ UNCHANGED <<stores, kvStores>>
       ELSE IF stores[id].state = "Tombstone"
       THEN ret' = RetErr("StoreTombstoned") /\ UNCHANGED <<stores, kvStores>>
       ELSE PutStoreLocked(id, [stores[id] EXCEPT !.state = "Offline"], saveOK)

\* mutant: force is not looked at
BuryStoreOutcomeForced(id, force, saveOK) ==
    LET now == [ret |-> RetOK(0), stores |-> stores, kvStores |-> kvStores]
        buried == [stores[id] EXCEPT !.state = "Tombstone"]
    IN  IF stores[id] = NoStore
        THEN [now EXCEPT !.ret = RetErr("StoreNotFound")]
        ELSE IF stores[id].state = "Tombstone" THEN now
        ELSE IF ~saveOK
        THEN [now EXCEPT !.ret = RetErr("Storage")]
        ELSE [now EXCEPT !.stores = [stores EXCEPT ![id] = buried],
                         !.kvStores = [kvStores EXCEPT ![id] = StoreMeta(buried)]]

\* BuryStore (lines 1803-1829): its return, the cache and the metadata store
\* it leaves.
BuryStoreOutcome(id, force, saveOK) ==
    LET now == [ret |-> RetOK(0), stores |-> stores, kvStores |-> kvStores]
        buried == [stores[id] EXCEPT !.state = "Tombstone"]
    IN  IF stores[id] = NoStore
        THEN [now EXCEPT !.ret = RetErr("StoreNotFound")]
        ELSE IF stores[id].state = "Tombstone" THEN now
        ELSE IF stores[id].state = "Up" /\ ~force
        THEN [now EXCEPT !.ret = RetErr("StoreIsUp")]
        ELSE IF ~saveOK
        THEN [now EXCEPT !.ret = RetErr("Storage")]
        ELSE [now EXCEPT !.stores = [stores EXCEPT ![id] = buried],
                         !.kvStores = [kvStores EXCEPT ![id] = StoreMeta(buried)]]

BuryStore(id, force, saveOK) ==
    LET out == BuryStoreOutcome(id, force, saveOK)
    IN  /\ StoreFrame
        /\ ret' = out.ret
        /\ stores' = out.stores
        /\ kvStores' = out.kvStores

\* SetStoreState (lines 1847-1861)
SetStoreState(id, state, saveOK) ==
    /\ StoreFrame
    /\ IF stores[id] = NoStore
       THEN ret' = RetErr("StoreNotFound") /\ UNCHANGED <<stores, kvStores>>
       ELSE PutStoreLocked(id, [stores[id] EXCEPT !.state = state], saveOK)

\* SetStoreWeight (lines 1864-1883); saveOK stands for SaveStoreWeight and
\* SaveStore both succeeding.
SetStoreWeight(id, weight, saveOK) ==
    /\ StoreFrame
    /\ IF stores[id] = NoStore
       THEN ret' = RetErr("StoreNotFound") /\ UNCHANGED <<stores, kvStores>>
       ELSE PutStoreLocked(id, [stores[id] EXCEPT !.weight = weight], saveOK)

\* mutant: the heartbeat of an unknown store registers the store
HandleStoreHeartbeatCreates(id, stats) ==
    /\ StoreFrame
    /\ UNCHANGED kvStores
    /\ ret' = RetOK(0)
    /\ IF stores[id] = NoStore
       THEN stores' = [stores EXCEPT ![id] = [StoreInfo("Up", id) EXCEPT !.stats = stats]]
       ELSE stores' = [stores EXCEPT ![id].stats = stats]

\* handleStoreHeartbeat (lines 1278-1292); the time of the last heartbeat is
\* not part of the model.
HandleStoreHeartbeat(id, stats) ==
    /\ StoreFrame
    /\ UNCHANGED kvStores
    /\ IF stores[id] = NoStore
       THEN ret' = RetErr("StoreNotFound") /\ UNCHANGED stores
       ELSE stores' = [stores EXCEPT ![id].stats = stats] /\ ret' = RetOK(0)

\* mutant: the stores that are Offline are taken for tombstones too
TombstoneOrOfflineStores(st) ==
    { s \in StoreIDs : st[s] # NoStore /\ st[s].state # "Up" }

TombstoneStores(st) ==
    { s \in StoreIDs : st[s] # NoStore /\ st[s].state = "Tombstone" }

\* RemoveTombStoneRecords (lines 1939-1959) with deleteStoreLocked (lines
\* 1961-1970): the stores in deleted are deleted before a DeleteStore fails,
\* or all of them are.
RemoveTombStoneRecords(deleted) ==
    /\ deleted \subseteq TombstoneStores(stores)
    /\ StoreFrame
    /\ stores' = [s \in StoreIDs |-> IF s \in deleted THEN NoStore ELSE stores[s]]
    /\ kvStores' = [s \in StoreIDs |-> IF s \in deleted THEN NoStore ELSE kvStores[s]]
    /\ ret' = IF deleted = TombstoneStores(stores) THEN RetOK(0)
              ELSE RetErr("Storage")

\* ------------------------------------------------------------ checkStores
\* what is left of the loop over the stores found offline
CheckNext(pending) ==
    IF pending = {} THEN Idle ELSE [pc |-> "check", pending |-> pending]

\* checkStores, lines 1897-1913: the job takes the stores as they are and
\* keeps those that are neither tombstones nor up.
CheckStoresBegin ==
    /\ workers["background"] = "loop"
    /\ bg.pc = "idle"
    /\ bg' = CheckNext({ s \in StoreIDs :
                           stores[s] # NoStore /\ stores[s].state = "Offline" })
    /\ UNCHANGED <<regions, stores, kvRegions, kvStores, changedRegions,
                   prepareChecker, hotSpotCache, hb, ret,
                   schedulerVars, lifeVars, probe>>

\* mutant: the store that still has regions is the one buried
CheckStoresCountInverted(s) ==
    /\ bg.pc = "check"
    /\ s \in bg.pending
    /\ bg' = IF GetStoreRegionCount(regions, s) # 0
             THEN [pc |-> "bury", pending |-> bg.pending \ {s}, store |-> s]
             ELSE CheckNext(bg.pending \ {s})
    /\ UNCHANGED <<regions, stores, kvRegions, kvStores, changedRegions,
                   prepareChecker, hotSpotCache, hb, ret,
                   schedulerVars, lifeVars, probe>>

\* lines 1915-1916 and 1922-1924: the job reads the region count of one of
\* them, holding no cluster lock.
CheckStoresCount(s) ==
    /\ bg.pc = "check"
    /\ s \in bg.pending
    /\ bg' = IF GetStoreRegionCount(regions, s) = 0
             THEN [pc |-> "bury", pending |-> bg.pending \ {s}, store |-> s]
             ELSE CheckNext(bg.pending \ {s})
    /\ UNCHANGED <<regions, stores, kvRegions, kvStores, changedRegions,
                   prepareChecker, hotSpotCache, hb, ret,
                   schedulerVars, lifeVars, probe>>

\* lines 1917-1921: BuryStore(id, false), which takes the cluster's write
\* lock; its error is logged, not returned.
CheckStoresBury(saveOK) ==
    /\ bg.pc = "bury"
    /\ mu = "free"
    /\ stores' = BuryStoreOutcome(bg.store, FALSE, saveOK).stores
    /\ kvStores' = BuryStoreOutcome(bg.store, FALSE, saveOK).kvStores
    /\ bg' = CheckNext(bg.pending)
    /\ UNCHANGED <<regions, kvRegions, changedRegions, prepareChecker,
                   hotSpotCache, hb, ret,
                   schedulerVars, lifeVars, probe>>

\* everything but the probe as start() leaves it
InitButProbe ==
    /\ InitRegions /\ InitStoresUp
    /\ opt = DefaultOptions
    /\ operators = {}
    /\ hitsCounter = NoHits
    /\ sched = Idle
    /\ running = TRUE
    /\ quit = "open"
    /\ workers = [w \in Workers |-> "loop"]
    /\ mu = "free"

\* --------------------------------------------------------------- filters
\* What the filters read of a core.StoreInfo.
FilterStores ==
    [id : ScheduleStoreIDs, state : StoreStates, downTime : 0..MaxDownTime,
     disconnected : BOOLEAN, blocked : BOOLEAN, busy : BOOLEAN,
     overloaded : BOOLEAN, sendingSnap : 0..MaxSnap, receivingSnap : 0..MaxSnap,
     applyingSnap : 0..MaxSnap, pendingPeerCount : 0..MaxPending,
     rejectLeader : BOOLEAN]

\* What the filters read of opt.Options.
FilterOptions ==
    [maxStoreDownTime : {0}, maxPendingPeerCount : 0..(MaxPending - 1),
     maxSnapshotCount : 0..MaxSnap]

\* StoreStateFilter.filterMoveRegion (lines 429-444)
filterMoveRegion(options, store) ==
    IF store.busy THEN TRUE
    ELSE IF store.overloaded THEN TRUE
    ELSE IF \/ store.sendingSnap > options.maxSnapshotCount
            \/ store.receivingSnap > options.maxSnapshotCount
            \/ store.applyingSnap > options.maxSnapshotCount
    THEN TRUE
    ELSE FALSE

\* StoreStateFilter.Source (lines 385-398)
StoreStateFilterSource(f, options, store) ==
    IF store.state = "Tombstone" \/ store.downTime > options.maxStoreDownTime
    THEN TRUE
    ELSE IF f.TransferLeader /\ (store.disconnected \/ store.blocked)
    THEN TRUE
    ELSE IF f.MoveRegion /\ filterMoveRegion(options, store)
    THEN TRUE
    ELSE FALSE

\* mutant: the target is judged as a source is
StoreStateFilterTargetAsSource(f, options, store) ==
    StoreStateFilterSource(f, options, store)

\* StoreStateFilter.Target (lines 402-427)
StoreStateFilterTarget(f, options, store) ==
    IF \/ store.state = "Tombstone"
       \/ store.state = "Offline"
       \/ store.downTime > options.maxStoreDownTime
    THEN TRUE
    ELSE IF f.TransferLeader /\ (\/ store.disconnected
                                 \/ store.blocked
                                 \/ store.busy
                                 \/ store.rejectLeader)
    THEN TRUE
    ELSE IF f.MoveRegion
    THEN IF /\ options.maxPendingPeerCount > 0
            /\ store.pendingPeerCount > options.maxPendingPeerCount
         THEN TRUE
         ELSE filterMoveRegion(options, store)
    ELSE FALSE

\* The filters of the package: the type and the fields of each.
StoreStateFilters ==
    [type : {"store-state-filter"}, TransferLeader : BOOLEAN, MoveRegion : BOOLEAN]

ExcludedFilters ==
    [type : {"exclude-filter"}, sources : SUBSET ScheduleStoreIDs,
     targets : SUBSET ScheduleStoreIDs]

BlacklistFilters ==
    [type : {"blacklist-store-filter"}, blacklist : SUBSET ScheduleStoreIDs,
     flag : {"source", "target"}]

PlainFilters ==
    [type : {"overload-filter", "state-filter", "health-filter",
             "pending-peer-filter", "snapshot-filter"}]

\* healthFilter.filter (lines 158-163)
healthFilter(options, store) ==
    IF store.busy THEN TRUE ELSE store.downTime > options.maxStoreDownTime

\* pendingPeerCountFilter.filter (lines 189-194)
pendingPeerCountFilter(options, store) ==
    IF options.maxPendingPeerCount = 0 THEN FALSE
    ELSE store.pendingPeerCount > options.maxPendingPeerCount

\* snapshotCountFilter.filter (lines 220-224)
snapshotCountFilter(options, store) ==
    \/ store.sendingSnap > options.maxSnapshotCount
    \/ store.receivingSnap > options.maxSnapshotCount
    \/ store.applyingSnap > options.maxSnapshotCount

\* Filter.Source of each type: TRUE when the store is not to be a source
FilterSource(f, options, store) ==
    CASE f.type = "exclude-filter" -> store.id \in f.sources
      [] f.type = "overload-filter" -> store.overloaded
      [] f.type = "state-filter" -> store.state = "Tombstone"
      [] f.type = "health-filter" -> healthFilter(options, store)
      [] f.type = "pending-peer-filter" -> pendingPeerCountFilter(options, store)
      [] f.type = "snapshot-filter" -> snapshotCountFilter(options, store)
      [] f.type = "store-state-filter" -> StoreStateFilterSource(f, options, store)
      [] f.type = "blacklist-store-filter" ->
            IF f.flag # "source" THEN FALSE ELSE store.id \in f.blacklist

\* Filter.Target of each type: TRUE when the store is not to be a target
FilterTarget(f, options, store) ==
    CASE f.type = "exclude-filter" -> store.id \in f.targets
      [] f.type = "overload-filter" -> store.overloaded
      [] f.type = "state-filter" -> store.state # "Up"
      [] f.type = "health-filter" -> healthFilter(options, store)
      [] f.type = "pending-peer-filter" -> pendingPeerCountFilter(options, store)
      [] f.type = "snapshot-filter" -> snapshotCountFilter(options, store)
      [] f.type = "store-state-filter" -> StoreStateFilterTarget(f, options, store)
      [] f.type = "blacklist-store-filter" ->
            IF f.flag # "target" THEN FALSE ELSE store.id \in f.blacklist

\* The loop of Source and of Target: the filters are asked in turn, the
\* first that filters the store ends the loop with TRUE.
RECURSIVE FirstFiltering(_, _, _, _)
FirstFiltering(method, options, store, filters) ==
    IF filters = <<>> THEN FALSE
    ELSE IF IF method = "source"
            THEN FilterSource(Head(filters), options, store)
            ELSE FilterTarget(Head(filters), options, store)
    THEN TRUE
    ELSE FirstFiltering(method, options, store, Tail(filters))

\* mutant: the last filter of the list is not asked
SourceButLast(options, store, filters) ==
    \E i \in 1..(Len(filters) - 1) : FilterSource(filters[i], options, store)

\* Source (lines 38-49)
Source(options, store, filters) ==
    FirstFiltering("source", options, store, filters)

\* Target (lines 51-62)
Target(options, store, filters) ==
    FirstFiltering("target", options, store, filters)

\* A store, the options and a list of filters, and what Source and Target
\* answer for them.
ApplyFilters ==
    /\ probe.fn = "filters"
    /\ probe' = [fn |-> "filtered", store |-> probe.store,
                 options |-> probe.options, filters |-> probe.filters,
                 source |-> Source(probe.options, probe.store, probe.filters),
                 target |-> Target(probe.options, probe.store, probe.filters)]
    /\ UNCHANGED <<regions, stores, kvRegions, kvStores, changedRegions,
                   prepareChecker, hotSpotCache, hb, bg, ret, schedulerVars,
                   lifeVars>>

\* StoreStateFilter alone, on every store and under all options.
InitStoreStateFilter ==
    /\ InitButProbe
    /\ probe \in [fn : {"filters"}, store : FilterStores,
                  options : FilterOptions,
                  filters : { <<f>> : f \in StoreStateFilters }]

NextStoreStateFilter == ApplyFilters

SpecStoreStateFilter == InitStoreStateFilter /\ [][NextStoreStateFilter]_vars

\* Lists of up to two filters of every type, on the stores that differ in
\* state, business and load.
HealthyStores ==
    { st \in FilterStores :
        /\ st.id \in {1, 2} /\ st.downTime = 0 /\ ~st.disconnected
        /\ ~st.blocked /\ ~st.rejectLeader /\ st.pendingPeerCount = 0
        /\ st.sendingSnap = 0 /\ st.receivingSnap = 0 /\ st.applyingSnap = 0 }

SomeFilters ==
    PlainFilters
        \cup { f \in StoreStateFilters : f.MoveRegion }
        \cup { f \in ExcludedFilters : f.sources \subseteq {1} /\ f.targets \subseteq {2} }
        \cup { f \in BlacklistFilters : f.blacklist = {1} }

FilterLists ==
    {<<>>} \cup { <<f>> : f \in SomeFilters }
           \cup { <<f, g>> : f \in SomeFilters, g \in SomeFilters }

InitFilters ==
    /\ InitButProbe
    /\ probe \in [fn : {"filters"}, store : HealthyStores,
                  options : { o \in FilterOptions :
                                o.maxPendingPeerCount = 0 /\ o.maxSnapshotCount = 0 },
                  filters : FilterLists]

NextFilters == ApplyFilters

SpecFilters == InitFilters /\ [][NextFilters]_vars

\* ------------------------------------------------------------- bootstrap
\* nil, for a message a request does not carry
Nil == [nil |-> TRUE]

\* metapb.Peer
BootstrapPeers == [id : 0..MaxPeerID, storeId : 0..MaxStoreID]

\* pdpb.BootstrapRequest: the store meta and the region meta, each of which
\* may be missing; a key is named by its number, 0 the empty key.
BootstrapRequests ==
    [store : {Nil} \cup [id : 0..MaxStoreID],
     region : {Nil} \cup [id : 0..1, startKey : Keys, endKey : Keys,
                          peers : {<<>>} \cup { <<p>> : p \in BootstrapPeers }
                                  \cup { <<p, q>> : p \in BootstrapPeers,
                                                    q \in BootstrapPeers }]]

\* mutant: the peer's id is not looked at
checkBootstrapRequestNoPeerID(req) ==
    IF req.store = Nil THEN "missing store meta"
    ELSE IF req.store.id = 0 THEN "invalid zero store id"
    ELSE IF req.region = Nil THEN "missing region meta"
    ELSE IF req.region.startKey # 0 \/ req.region.endKey # 0
    THEN "invalid first region key range"
    ELSE IF req.region.id = 0 THEN "invalid zero region id"
    ELSE IF Len(req.region.peers) # 1 THEN "invalid first region peer count"
    ELSE IF req.region.peers[1].storeId # req.store.id
    THEN "invalid peer store id"
    ELSE "ok"

\* checkBootstrapRequest (lines 1474-1508): the error, or "ok" for nil
checkBootstrapRequest(req) ==
    IF req.store = Nil THEN "missing store meta"
    ELSE IF req.store.id = 0 THEN "invalid zero store id"
    ELSE IF req.region = Nil THEN "missing region meta"
    ELSE IF req.region.startKey # 0 \/ req.region.endKey # 0
    THEN "invalid first region key range"
    ELSE IF req.region.id = 0 THEN "invalid zero region id"
    ELSE IF Len(req.region.peers) # 1 THEN "invalid first region peer count"
    ELSE IF req.region.peers[1].storeId # req.store.id
    THEN "invalid peer store id"
    ELSE IF req.region.peers[1].id = 0 THEN "invalid zero peer id"
    ELSE "ok"

CheckBootstrap ==
    /\ probe.fn = "bootstrap"
    /\ probe' = [fn |-> "bootstrap checked", req |-> probe.req,
                 err |-> checkBootstrapRequest(probe.req)]
    /\ UNCHANGED <<regions, stores, kvRegions, kvStores, changedRegions,
                   prepareChecker, hotSpotCache, hb, bg, ret, schedulerVars,
                   lifeVars>>

InitBootstrap ==
    /\ InitButProbe
    /\ probe \in [fn : {"bootstrap"}, req : BootstrapRequests]

NextBootstrap == CheckBootstrap

SpecBootstrap == InitBootstrap /\ [][NextBootstrap]_vars

\* ------------------------------------------------------- ScheduleConfig
\* A ratio is counted in tenths: RatioOne is 1.0.
Ratios == (0 - 1)..(RatioOne + 1)

\* schedule.IsSchedulerRegistered: the types with a create function
RegisteredSchedulers ==
    {"balance-region", "balance-leader", "hot-region", "label",
     "separate-cold-hot"}

\* defaultSchedulers (lines 718-724)
defaultSchedulers ==
    <<"balance-region", "balance-leader", "hot-region", "label",
      "separate-cold-hot">>

SchedulerTypes == {"balance-region", "label", "balance-regoin"}

\* ScheduleConfig: the fields Validate reads
ScheduleConfigs ==
    [TolerantSizeRatio : (0 - 1)..1, LowSpaceRatio : Ratios,
     HighSpaceRatio : Ratios,
     Schedulers : {<<>>} \cup { <<t>> : t \in SchedulerTypes }
                  \cup { <<t, u>> : t \in SchedulerTypes, u \in {"misspelled", "label"} }]

\* mutant: equal ratios pass
ValidateLowNotBelowHigh(c) ==
    IF c.TolerantSizeRatio < 0 THEN "tolerant-size-ratio should be nonnegative"
    ELSE IF c.LowSpaceRatio < 0 \/ c.LowSpaceRatio > RatioOne
    THEN "low-space-ratio should between 0 and 1"
    ELSE IF c.HighSpaceRatio < 0 \/ c.HighSpaceRatio > RatioOne
    THEN "high-space-ratio should between 0 and 1"
    ELSE IF c.LowSpaceRatio < c.HighSpaceRatio
    THEN "low-space-ratio should be larger than high-space-ratio"
    ELSE IF \E i \in DOMAIN c.Schedulers : c.Schedulers[i] \notin RegisteredSchedulers
    THEN "create func is not registered"
    ELSE "ok"

\* ScheduleConfig.Validate (lines 678-697): the error, or "ok" for nil
Validate(c) ==
    IF c.TolerantSizeRatio < 0 THEN "tolerant-size-ratio should be nonnegative"
    ELSE IF c.LowSpaceRatio < 0 \/ c.LowSpaceRatio > RatioOne
    THEN "low-space-ratio should between 0 and 1"
    ELSE IF c.HighSpaceRatio < 0 \/ c.HighSpaceRatio > RatioOne
    THEN "high-space-ratio should between 0 and 1"
    ELSE IF c.LowSpaceRatio <= c.HighSpaceRatio
    THEN "low-space-ratio should be larger than high-space-ratio"
    ELSE IF \E i \in DOMAIN c.Schedulers : c.Schedulers[i] \notin RegisteredSchedulers
    THEN "create func is not registered"
    ELSE "ok"

\* adjustFloat64 (lines 230-234): zero is taken for "not set"
adjustFloat64(v, defValue) == IF v = 0 THEN defValue ELSE v

\* adjustSchedulers (lines 242-246)
adjustSchedulers(v, defValue) == IF Len(v) = 0 THEN defValue ELSE v

\* ScheduleConfig.adjust (lines 625-675) on the fields Validate reads, the
\* tolerant-size-ratio being defined or not in the file: the configuration
\* it leaves.
adjusted(c) ==
    [TolerantSizeRatio |-> adjustFloat64(c.TolerantSizeRatio, defaultTolerantSizeRatio),
     LowSpaceRatio |-> adjustFloat64(c.LowSpaceRatio, defaultLowSpaceRatio),
     HighSpaceRatio |-> adjustFloat64(c.HighSpaceRatio, defaultHighSpaceRatio),
     Schedulers |-> adjustSchedulers(c.Schedulers, defaultSchedulers)]

\* ... and the error it returns (line 674)
adjust(c) == Validate(adjusted(c))

ValidateConfig ==
    /\ probe.fn = "config"
    /\ probe' = [fn |-> "validated", c |-> probe.c, err |-> Validate(probe.c)]
    /\ UNCHANGED <<regions, stores, kvRegions, kvStores, changedRegions,
                   prepareChecker, hotSpotCache, hb, bg, ret, schedulerVars,
                   lifeVars>>

AdjustConfig ==
    /\ probe.fn = "config"
    /\ probe' = [fn |-> "adjusted", c |-> adjusted(probe.c), err |-> adjust(probe.c)]
    /\ UNCHANGED <<regions, stores, kvRegions, kvStores, changedRegions,
                   prepareChecker, hotSpotCache, hb, bg, ret, schedulerVars,
                   lifeVars>>

InitConfig ==
    /\ InitButProbe
    /\ probe \in [fn : {"config"}, c : ScheduleConfigs]

NextConfig ==
    \/ ValidateConfig
    \/ AdjustConfig

SpecConfig == InitConfig /\ [][NextConfig]_vars

\* ------------------------------------------------------------- operators
\* operator.OpKind: the flags of an operator
OpKinds == {{"region"}, {"leader"}, {"leader", "region"}}

\* An operator on a region. One operator is live per region at most.
Operators == [regionID : RegionIDs, kind : OpKinds]

\* OperatorController.OperatorCount: the live operators carrying the flag
OperatorCount(ops, flag) ==
    Cardinality({ op \in ops : flag \in op.kind })

\* the limit configured for a flag
ScheduleLimit(options, flag) ==
    IF flag = "region" THEN options.regionScheduleLimit
    ELSE options.leaderScheduleLimit

\* OperatorController.AddOperator admits an operator iff no operator is live
\* for its region and, for each of its flags, the live operators carrying the
\* flag are fewer than the flag's limit.
Admitted(ops, options, op) ==
    /\ \A live \in ops : live.regionID # op.regionID
    /\ \A flag \in op.kind : OperatorCount(ops, flag) < ScheduleLimit(options, flag)

AddOperator(op) ==
    /\ IF Admitted(operators, opt, op)
       THEN operators' = operators \cup {op} /\ ret' = RetOK(0)
       ELSE operators' = operators /\ ret' = RetErr("OperatorRejected")
    /\ UNCHANGED <<regions, stores, kvRegions, kvStores, changedRegions,
                   prepareChecker, hotSpotCache, hb, bg, opt, hitsCounter,
                   sched, lifeVars, probe>>

\* A live operator reaches a terminal status and leaves the controller.
FinishOperator(op) ==
    /\ op \in operators
    /\ operators' = operators \ {op}
    /\ UNCHANGED <<regions, stores, kvRegions, kvStores, changedRegions,
                   prepareChecker, hotSpotCache, hb, bg, ret, opt, hitsCounter,
                   sched, lifeVars, probe>>

\* mutant: the scheduler is allowed with the limit reached
IsScheduleAllowedAtLimit(ops, options) ==
    OperatorCount(ops, "region") <= options.regionScheduleLimit

\* balanceRegionScheduler.IsScheduleAllowed (lines 625-627)
IsScheduleAllowed(ops, options) ==
    OperatorCount(ops, "region") < options.regionScheduleLimit

\* The coordinator asks the scheduler whether it may schedule; the answer is
\* the call's return.
AskScheduleAllowed ==
    /\ ret' = [RetOK(0) EXCEPT !.existing =
                  IF IsScheduleAllowed(operators, opt) THEN "allowed" ELSE "refused"]
    /\ UNCHANGED <<regions, stores, kvRegions, kvStores, changedRegions,
                   prepareChecker, hotSpotCache, hb, bg, opt, operators,
                   hitsCounter, sched, lifeVars, probe>>

\* The cluster after start() under some configured limits.
InitOperators ==
    /\ InitRegions /\ InitStoresUp
    /\ opt \in { o \in [regionScheduleLimit : 0..MaxLimit,
                         leaderScheduleLimit : 0..MaxLimit,
                         maxReplicas : {MaxReplicas}] : TRUE }
    /\ operators = {}
    /\ hitsCounter = NoHits
    /\ sched = Idle
    /\ running = TRUE
    /\ quit = "open"
    /\ workers = [w \in Workers |-> "loop"]
    /\ mu = "free"
    /\ probe = NoProbe

SubmitOperator == \E op \in Operators : AddOperator(op)

OperatorFinishes == \E op \in Operators : FinishOperator(op)

NextOperators ==
    \/ SubmitOperator
    \/ OperatorFinishes
    \/ AskScheduleAllowed

SpecOperators == InitOperators /\ [][NextOperators]_vars

\* --------------------------------------------- the balance-region scheduler
\* A record of hitsStoreBuilder.hits: the count and the minutes since
\* lastTime, which stop being counted one past the ttl.
\* hitsStoreBuilder.filter (lines 809-824), its answer ...
HitsFilter(h, source, target) ==
    LET key == getKey(source, target) IN
    IF key = "" THEN FALSE
    ELSE IF h[key] = NoRecord THEN FALSE
    ELSE h[key].age <= hitsStoreTTL /\ h[key].count >= hitsStoreCountThreshold

\* ... and the map it leaves when asked about each of the keys: a record
\* older than the ttl is deleted.
HitsSweep(h, keys) ==
    [k \in HitKeys |->
        IF k \in keys /\ h[k] # NoRecord /\ h[k].age > hitsStoreTTL
        THEN NoRecord ELSE h[k]]

\* mutant: remove leaves the record where it is
HitsKept(h, source, target) == h

\* hitsStoreBuilder.remove (lines 826-831)
HitsRemove(h, source, target) ==
    LET key == getKey(source, target) IN
    IF key # "" /\ h[key] # NoRecord THEN [h EXCEPT ![key] = NoRecord] ELSE h

\* hitsStoreBuilder.put (lines 833-849)
HitsPut(h, source, target) ==
    LET key == getKey(source, target) IN
    IF key = "" THEN h
    ELSE IF h[key] # NoRecord
    THEN [h EXCEPT ![key] =
            [count |-> IF h[key].age >= hitsStoreTTL THEN 0 ELSE h[key].count + 1,
             age |-> 0]]
    ELSE [h EXCEPT ![key] = [count |-> 0, age |-> 0]]

\* hitsStoreBuilder.buildSourceFilter (lines 851-859): the blacklist
buildSourceFilter(h) ==
    [type |-> "blacklist-store-filter", flag |-> "source",
     blacklist |-> { s \in ScheduleStoreIDs : HitsFilter(h, s, 0) }]

\* hitsStoreBuilder.buildTargetFilter (lines 861-869): the blacklist
buildTargetFilter(h, source) ==
    [type |-> "blacklist-store-filter", flag |-> "target",
     blacklist |-> { t \in ScheduleStoreIDs : HitsFilter(h, source, t) }]

\* metapb.StoreType: the two tags and any other value
StoreTypes == {"Storage", "Performance", "Other"}

\* A core.StoreInfo as the scheduler and its filters read it.
ScheduleStore(id, storeType) ==
    [id |-> id, state |-> "Up", downTime |-> 0, disconnected |-> FALSE,
     blocked |-> FALSE, busy |-> FALSE, overloaded |-> FALSE,
     sendingSnap |-> 0, receivingSnap |-> 0, applyingSnap |-> 0,
     pendingPeerCount |-> 0, rejectLeader |-> FALSE, storeType |-> storeType]

\* cluster.GetStores(), in the order of the ids
GetStores == [i \in ScheduleStoreIDs |-> i]

\* make([]*core.StoreInfo, len(stores)) (lines 632-633): as many nil
\* entries as there are stores
NilStores == [i \in ScheduleStoreIDs |-> 0]

\* Schedule, lines 634-643: the stores appended to the two lists
storageStores(st) ==
    NilStores \o SelectSeq(GetStores, LAMBDA s : st[s].storeType = "Storage")

performanceStores(st) ==
    NilStores \o SelectSeq(GetStores, LAMBDA s : st[s].storeType # "Storage")

\* the stores of a list, and whether it holds a nil entry
ListStores(l) == { l[i] : i \in 1..Len(l) } \ {0}

HasNil(l) == \E i \in 1..Len(l) : l[i] = 0

\* the lists of the scheduleImpl call in progress
includeStores(s) ==
    IF s.attempt = 1 THEN s.storageStores ELSE s.performanceStores

excludedStores(s) ==
    IF s.attempt = 1 THEN s.performanceStores ELSE s.storageStores

\* What Schedule returns: the operators, and the scheduleImpl calls it made.
RetSchedule(ops, calls) ==
    [err |-> "ok", existing |-> "none", evicted |-> 0, ops |-> ops,
     calls |-> calls]

\* A method called on a nil *core.StoreInfo: the call panics, which ends
\* the process.
Panicked == [pc |-> "panicked"]

\* mutant: the second scheduleImpl call is made whatever the first returned
AfterImplBoth(s, ops) ==
    LET calls == Append(s.calls, [include |-> includeStores(s),
                                  excluded |-> excludedStores(s),
                                  ops |-> ops]) IN
    IF s.attempt = 1
    THEN [sched |-> [s EXCEPT !.pc = "select", !.attempt = 2, !.calls = calls,
                              !.source = 0, !.i = 0, !.region = 0,
                              !.label = ""],
          ret |-> ret]
    ELSE [sched |-> Idle, ret |-> RetSchedule(ops, calls)]

\* Schedule, lines 645-653, when a scheduleImpl call returns ops: the
\* scheduler's position and the return.
AfterImpl(s, ops) ==
    LET calls == Append(s.calls, [include |-> includeStores(s),
                                  excluded |-> excludedStores(s),
                                  ops |-> ops]) IN
    IF s.attempt = 1 /\ ops = <<>>
    THEN [sched |-> [s EXCEPT !.pc = "select", !.attempt = 2, !.calls = calls,
                              !.source = 0, !.i = 0, !.region = 0,
                              !.label = ""],
          ret |-> ret]
    ELSE [sched |-> Idle, ret |-> RetSchedule(ops, calls)]

\* cluster.IsRegionHot
IsRegionHot(cache, region) == region.id \in cache

\* Schedule, lines 629-645: the coordinator calls it when IsScheduleAllowed;
\* the two lists are built and the first scheduleImpl call begins.
ScheduleBegin ==
    /\ sched.pc = "idle"
    /\ IsScheduleAllowed(operators, opt)
    /\ \A k \in HitKeys : hitsCounter[k].count < MaxHits - 1
    /\ sched' = [pc |-> "select", storageStores |-> storageStores(stores),
                 performanceStores |-> performanceStores(stores),
                 attempt |-> 1, source |-> 0, i |-> 0, region |-> 0,
                 label |-> "", calls |-> <<>>]
    /\ UNCHANGED <<regions, stores, kvRegions, kvStores, changedRegions,
                   prepareChecker, hotSpotCache, hb, bg, ret, opt, operators,
                   hitsCounter, lifeVars, probe>>

\* scheduleImpl, lines 658-666: the source filter is built and SelectSource
\* picks among includeStores a store that no filter rejects as a source (the
\* one of the highest region score, which may be any of them).
ScheduleSelectSource ==
    /\ sched.pc = "select"
    /\ hitsCounter' =
          HitsSweep(hitsCounter, { getKey(s, 0) : s \in ScheduleStoreIDs })
    /\ \E deref \in IF HasNil(includeStores(sched))
                    THEN {"panic", "skip"} ELSE {"skip"} :
          IF deref = "panic"
          THEN sched' = Panicked /\ ret' = RetErr("panic")
          ELSE LET filters == <<buildSourceFilter(hitsCounter),
                                 [type |-> "store-state-filter",
                                  TransferLeader |-> FALSE, MoveRegion |-> TRUE]>>
                   candidates ==
                       { s \in ListStores(includeStores(sched)) :
                           ~Source(opt, stores[s], filters) }
               IN  IF candidates = {}
                   THEN /\ sched' = AfterImpl(sched, <<>>).sched
                        /\ ret' = AfterImpl(sched, <<>>).ret
                   ELSE /\ \E source \in candidates :
                              sched' = [sched EXCEPT !.pc = "retry",
                                                     !.source = source, !.i = 0]
                        /\ ret' = ret
    /\ UNCHANGED <<regions, stores, kvRegions, kvStores, changedRegions,
                   prepareChecker, hotSpotCache, hb, bg, opt, operators,
                   lifeVars, probe>>

\* the regions RandPendingRegion, RandFollowerRegion and RandLeaderRegion
\* pick from: those with a peer on the source
SourceRegions(cache, source) ==
    { r \in RegionIDs : cache[r] # NoRegion /\ source \in cache[r].peers }

\* mutant: a hot region is scheduled
UnschedulableWhenAbnormal(region) ==
    Cardinality(region.peers) # opt.maxReplicas

\* scheduleImpl, lines 694-708: the region is not to be scheduled
Unschedulable(region) ==
    \/ Cardinality(region.peers) # opt.maxReplicas
    \/ IsRegionHot(hotSpotCache, region)

\* the try on a region (none: NoRegion) is over without an operator: the hit
\* is recorded, schedulerCounter counts the try under its label and the loop
\* goes on
NextTry(h, region, label) ==
    /\ hitsCounter' = h
    /\ sched' = [sched EXCEPT !.i = sched.i + 1, !.region = region.id,
                              !.label = label]
    /\ ret' = ret

\* mutant: the filter excludes no store
coldHotFilterOfNone(excluded) ==
    [type |-> "exclude-filter", sources |-> {}, targets |-> {}]

\* transferPeer, lines 730-734: the filter that excludes the stores of
\* excludedStores as sources and as targets
coldHotFilter(excluded) ==
    [type |-> "exclude-filter", sources |-> ListStores(excluded),
     targets |-> ListStores(excluded)]

\* transferPeer (lines 720-778) on a region the source holds a peer of
transferPeer(region) ==
    LET source == sched.source
        h == HitsSweep(hitsCounter,
                       { getKey(source, t) : t \in ScheduleStoreIDs })
        filters == <<buildTargetFilter(hitsCounter, source),
                     coldHotFilter(excludedStores(sched))>>
        replacements ==
            { t \in ScheduleStoreIDs \ region.peers :
                ~Target(opt, stores[t], filters) }
    IN  \E deref \in IF HasNil(excludedStores(sched))
                     THEN {"panic", "skip"} ELSE {"skip"} :
          IF deref = "panic"
          THEN /\ sched' = Panicked /\ ret' = RetErr("panic")
               /\ hitsCounter' = h
          ELSE IF replacements = {}
          THEN NextTry(HitsPut(h, source, 0), region, "no-replacement")
          ELSE \E target \in replacements, balance \in BOOLEAN, created \in BOOLEAN :
                 IF ~balance
                 THEN NextTry(HitsPut(h, source, target), region, "skip")
                 ELSE IF ~created THEN NextTry(h, region, "no-peer")
                 ELSE LET op == [regionID |-> region.id, kind |-> {"region"},
                                 source |-> source, target |-> target]
                      IN  /\ hitsCounter' =
                                HitsRemove(HitsRemove(h, source, target), source, 0)
                          /\ sched' = AfterImpl(sched, <<op>>).sched
                          /\ ret' = AfterImpl(sched, <<op>>).ret

\* scheduleImpl, lines 679-715: one turn of the loop
ScheduleTry ==
    /\ sched.pc = "retry"
    /\ sched.i < balanceRegionRetryLimit
    /\ LET held == SourceRegions(regions, sched.source) IN
       \E pick \in IF held = {} THEN {0} ELSE held :
          IF pick = 0
          THEN NextTry(HitsPut(hitsCounter, sched.source, 0), NoRegion,
                       "no-region")
          ELSE IF Unschedulable(regions[pick])
          THEN NextTry(HitsPut(hitsCounter, sched.source, 0), regions[pick],
                       "unschedulable")
          ELSE transferPeer(regions[pick])
    /\ UNCHANGED <<regions, stores, kvRegions, kvStores, changedRegions,
                   prepareChecker, hotSpotCache, hb, bg, opt, operators,
                   lifeVars, probe>>

\* scheduleImpl, line 716: the tries are used up
ScheduleGiveUp ==
    /\ sched.pc = "retry"
    /\ sched.i = balanceRegionRetryLimit
    /\ sched' = AfterImpl(sched, <<>>).sched
    /\ ret' = AfterImpl(sched, <<>>).ret
    /\ UNCHANGED <<regions, stores, kvRegions, kvStores, changedRegions,
                   prepareChecker, hotSpotCache, hb, bg, opt, operators,
                   hitsCounter, lifeVars, probe>>

\* The hot cache changes its mind about a region between two tries.
HotCacheUpdate ==
    /\ \E r \in RegionIDs :
          /\ regions[r] # NoRegion
          /\ Cardinality(regions[r].peers) = opt.maxReplicas
          /\ hotSpotCache' = IF r \in hotSpotCache THEN hotSpotCache \ {r}
                             ELSE hotSpotCache \cup {r}
    /\ UNCHANGED <<regions, stores, kvRegions, kvStores, changedRegions,
                   prepareChecker, hb, bg, ret, schedulerVars, lifeVars, probe>>

\* Three stores of any tags; region 1 with a peer on stores 1 and 2, region
\* 2 with its only peer on store 1, no region on store 3.
InitSchedule ==
    /\ \E tags \in [ScheduleStoreIDs -> StoreTypes] :
          stores = [s \in ScheduleStoreIDs |-> ScheduleStore(s, tags[s])]
    /\ regions = [r \in RegionIDs |->
                    IF r = 1
                    THEN [id |-> 1, startKey |-> 0, endKey |-> 1, version |-> 1,
                          confVer |-> 1, peers |-> {1, 2}, leader |-> 1,
                          pending |-> 0, size |-> 0, flow |-> 0]
                    ELSE IF r = 2
                    THEN [id |-> 2, startKey |-> 1, endKey |-> 0, version |-> 1,
                          confVer |-> 1, peers |-> {1}, leader |-> 1,
                          pending |-> 0, size |-> 0, flow |-> 0]
                    ELSE NoRegion]
    /\ kvRegions = [r \in RegionIDs |-> NoRegion]
    /\ kvStores = [s \in ScheduleStoreIDs |-> NoStore]
    /\ changedRegions = <<>>
    /\ prepareChecker = {}
    /\ hotSpotCache = {}
    /\ hb = <<>>
    /\ bg = Idle
    /\ ret = RetOK(0)
    /\ opt = [regionScheduleLimit |-> MaxLimit, leaderScheduleLimit |-> MaxLimit,
              maxReplicas |-> MaxReplicas, maxStoreDownTime |-> 0,
              maxPendingPeerCount |-> 0, maxSnapshotCount |-> 0]
    /\ operators = {}
    /\ hitsCounter = NoHits
    /\ sched = Idle
    /\ running = TRUE
    /\ quit = "open"
    /\ workers = [w \in Workers |-> "loop"]
    /\ mu = "free"
    /\ probe = NoProbe

NextSchedule ==
    \/ ScheduleBegin
    \/ ScheduleSelectSource
    \/ ScheduleTry
    \/ ScheduleGiveUp
    \/ HotCacheUpdate

SpecSchedule == InitSchedule /\ [][NextSchedule]_vars

\* ------------------------------------------- the stores and their regions
\* Heartbeats of one region that has its only peer, the leader, on a store.
StoreRegionInputs ==
    { r \in SingleRegionInputs :
        /\ r.version = 1 /\ r.confVer = 1 /\ r.flow = 0
        /\ Cardinality(r.peers) = 1
        /\ r.leader \in r.peers }

PutStoreCall ==
    \E id \in StoreIDs, address \in Addresses, saveOK \in BOOLEAN :
        PutStore(id, address, saveOK)

RemoveStoreCall ==
    \E id \in StoreIDs, saveOK \in BOOLEAN : RemoveStore(id, saveOK)

BuryStoreCall ==
    \E id \in StoreIDs, force \in BOOLEAN, saveOK \in BOOLEAN :
        BuryStore(id, force, saveOK)

SetStoreStateCall ==
    \E id \in StoreIDs, state \in StoreStates, saveOK \in BOOLEAN :
        SetStoreState(id, state, saveOK)

SetStoreWeightCall ==
    \E id \in StoreIDs, weight \in 1..MaxWeight, saveOK \in BOOLEAN :
        SetStoreWeight(id, weight, saveOK)

StoreHeartbeat ==
    \E id \in StoreIDs, stats \in 0..MaxStats : HandleStoreHeartbeat(id, stats)

RemoveTombStoneRecordsCall ==
    \E deleted \in SUBSET StoreIDs : RemoveTombStoneRecords(deleted)

CheckStores ==
    \/ CheckStoresBegin
    \/ \E s \in StoreIDs : CheckStoresCount(s)
    \/ \E saveOK \in BOOLEAN : CheckStoresBury(saveOK)

RegionHeartbeat ==
    \E region \in StoreRegionInputs :
        SyncerKeepsUp /\ ProcessRegionHeartbeat(region, TRUE, TRUE)

PutStoreLabelsCall ==
    \E id \in StoreIDs, address \in Addresses, labels \in LabelSets,
       locationLabels \in SUBSET LabelKeys, strict \in BOOLEAN,
       saveOK \in BOOLEAN :
        PutStoreLabels(id, address, labels, locationLabels, strict, saveOK)

TombstoneCall ==
    \E id \in StoreIDs : SetStoreState(id, "Tombstone", TRUE)

\* Stores put with labels, under every replication configuration; stores
\* made tombstones and their records removed, so that new stores are put.
NextLabels ==
    \/ PutStoreLabelsCall
    \/ TombstoneCall
    \/ RemoveTombStoneRecordsCall

SpecLabels == Init /\ [][NextLabels]_vars

\* The calls on the stores, no region reported.
NextStores ==
    \/ PutStoreCall
    \/ RemoveStoreCall
    \/ BuryStoreCall
    \/ SetStoreStateCall
    \/ SetStoreWeightCall
    \/ StoreHeartbeat
    \/ RemoveTombStoneRecordsCall

SpecStores == Init /\ [][NextStores]_vars

\* Stores taken offline and buried, by calls and by the background job, while
\* the region's heartbeats arrive.
NextBury ==
    \/ RemoveStoreCall
    \/ BuryStoreCall
    \/ CheckStores
    \/ RegionHeartbeat
    \/ SyncRegions

SpecBury == Init /\ [][NextBury]_vars

\* runBackgroundJobs (lines 1203-1213): while the cluster runs the ticker
\* fires again and again and each tick runs checkStores to its end; the
\* metadata store does not refuse the tombstone for ever.
BackgroundJobsFair ==
    /\ WF_vars(CheckStoresBegin)
    /\ \A s \in StoreIDs : WF_vars(CheckStoresCount(s))
    /\ WF_vars(\E saveOK \in BOOLEAN : CheckStoresBury(saveOK))
    /\ SF_vars(CheckStoresBury(TRUE))

SpecBuryFair == Init /\ [][NextBury]_vars /\ BackgroundJobsFair

\* ------------------------------------------------- the hits of one source
\* Store 1 is picked as the source again and again. The probe counts the
\* times put(source, nil) recorded it since the last operator, and the
\* minutes since the last of them.
\* scheduleImpl's hitsCounter.put(source, nil)
HitsRecord ==
    /\ probe.fn = "hits"
    /\ probe.puts < MaxPuts
    /\ hitsCounter' = HitsPut(hitsCounter, 1, 0)
    /\ probe' = [probe EXCEPT !.puts = probe.puts + 1, !.since = 0]
    /\ UNCHANGED <<regions, stores, kvRegions, kvStores, changedRegions,
                   prepareChecker, hotSpotCache, hb, bg, ret, opt, operators,
                   sched, lifeVars>>

\* transferPeer, lines 767-768: an operator for source 1 and target 2
HitsOperator ==
    /\ probe.fn = "hits"
    /\ hitsCounter' = HitsRemove(HitsRemove(hitsCounter, 1, 2), 1, 0)
    /\ probe' = [probe EXCEPT !.puts = 0]
    /\ UNCHANGED <<regions, stores, kvRegions, kvStores, changedRegions,
                   prepareChecker, hotSpotCache, hb, bg, ret, opt, operators,
                   sched, lifeVars>>

\* A minute passes: time.Since(lastTime) grows for every record.
HitsClock ==
    /\ probe.fn = "hits"
    /\ probe.since <= hitsStoreTTL
    /\ hitsCounter' = [k \in HitKeys |->
                         IF hitsCounter[k] = NoRecord THEN NoRecord
                         ELSE [hitsCounter[k] EXCEPT !.age =
                                 IF @ > hitsStoreTTL THEN @ ELSE @ + 1]]
    /\ probe' = [probe EXCEPT !.since = probe.since + 1]
    /\ UNCHANGED <<regions, stores, kvRegions, kvStores, changedRegions,
                   prepareChecker, hotSpotCache, hb, bg, ret, opt, operators,
                   sched, lifeVars>>

\* scheduleImpl, line 658: buildSourceFilter asks filter about every store;
\* the answer for store 1 is the call's return.
HitsBuildSourceFilter ==
    /\ probe.fn = "hits"
    /\ hitsCounter' =
          HitsSweep(hitsCounter, { getKey(s, 0) : s \in ScheduleStoreIDs })
    /\ ret' = [RetOK(0) EXCEPT !.existing =
                  IF 1 \in buildSourceFilter(hitsCounter).blacklist
                  THEN "rejected" ELSE "admitted"]
    /\ UNCHANGED <<regions, stores, kvRegions, kvStores, changedRegions,
                   prepareChecker, hotSpotCache, hb, bg, opt, operators,
                   sched, lifeVars, probe>>

InitHits ==
    /\ InitButProbe
    /\ probe = [fn |-> "hits", puts |-> 0, since |-> 0]

NextHits ==
    \/ HitsRecord
    \/ HitsOperator
    \/ HitsClock
    \/ HitsBuildSourceFilter

SpecHits == InitHits /\ [][NextHits]_vars

\* ------------------------------------------------------- blocked stores
\* A store of the cache with its "blocked" flag.
Blockable(s, blocked) ==
    [state |-> s.state, address |-> s.address, labels |-> s.labels,
     leaderCount |-> s.leaderCount, regionCount |-> s.regionCount,
     stats |-> s.stats, weight |-> s.weight, blocked |-> blocked]

StoreCalls == {"handleStoreHeartbeat", "SetStoreWeight", "RemoveStore", "putStore"}

BlockFrame ==
    UNCHANGED <<regions, kvRegions, changedRegions, prepareChecker,
                hotSpotCache, hb, bg, schedulerVars, running, quit, workers>>

\* store.Clone(...) of each call: the copy keeps every field of the store
\* it was made from but the one the option sets (lines 1287, 1877, 1792,
\* 1738).
StoreClone(call, store, arg) ==
    IF call = "handleStoreHeartbeat" THEN [store EXCEPT !.stats = arg]
    ELSE IF call = "SetStoreWeight" THEN [store EXCEPT !.weight = arg]
    ELSE IF call = "RemoveStore" THEN [store EXCEPT !.state = "Offline"]
    ELSE [store EXCEPT !.address = arg]

\* The call's first half (lines 1279-1287, 1865-1877, 1774-1792, 1703-1743):
\* it takes the cluster lock, reads the store with GetStore and clones it.
\* A store that is not there, a RemoveStore of a store that is not Up and a
\* putStore of an address in use return at once.
StoreCallReads(call, id, arg) ==
    /\ mu = "free"
    /\ BlockFrame
    /\ UNCHANGED <<stores, kvStores>>
    /\ IF stores[id] = NoStore
       THEN ret' = RetErr("StoreNotFound") /\ UNCHANGED <<mu, probe>>
       ELSE IF call = "RemoveStore" /\ stores[id].state = "Offline"
       THEN ret' = RetOK(0) /\ UNCHANGED <<mu, probe>>
       ELSE IF call = "RemoveStore" /\ stores[id].state = "Tombstone"
       THEN ret' = RetErr("StoreTombstoned") /\ UNCHANGED <<mu, probe>>
       ELSE IF call = "putStore" /\ DuplicatedAddress(stores, id, arg)
       THEN ret' = RetErr("DuplicatedAddress") /\ UNCHANGED <<mu, probe>>
       ELSE /\ mu' = call
            /\ probe' = [probe EXCEPT !.id = id,
                                      !.newStore = StoreClone(call, stores[id], arg)]
            /\ UNCHANGED ret

\* The call's second half: handleStoreHeartbeat puts the clone in the cache
\* (line 1288), the others call putStoreLocked (lines 1885-1894); the
\* deferred Unlock.
StoreCallWrites(saveOK) ==
    /\ mu \in StoreCalls
    /\ BlockFrame
    /\ mu' = "free"
    /\ probe' = [probe EXCEPT !.id = 0, !.newStore = NoStore]
    /\ IF mu = "handleStoreHeartbeat"
       THEN /\ stores' = [stores EXCEPT ![probe.id] = probe.newStore]
            /\ ret' = RetOK(0)
            /\ UNCHANGED kvStores
       ELSE PutStoreLocked(probe.id, probe.newStore, saveOK)

\* BlockStore (lines 1832-1834): core.BlockStore, which does not take the
\* cluster lock, refuses a store that is not there or is blocked already and
\* sets the flag otherwise. probe.blocked remembers the stores for which
\* it returned success.
BlockStore(id) ==
    /\ BlockFrame
    /\ UNCHANGED <<kvStores, mu>>
    /\ IF stores[id] = NoStore
       THEN ret' = RetErr("StoreNotFound") /\ UNCHANGED <<stores, probe>>
       ELSE IF stores[id].blocked
       THEN ret' = RetErr("StoreBlocked") /\ UNCHANGED <<stores, probe>>
       ELSE /\ stores' = [stores EXCEPT ![id].blocked = TRUE]
            /\ probe' = [probe EXCEPT !.blocked = @ \cup {id}]
            /\ ret' = RetOK(0)

\* UnblockStore (lines 1837-1839)
UnblockStore(id) ==
    /\ BlockFrame
    /\ UNCHANGED <<kvStores, mu, ret>>
    /\ stores' = IF stores[id] = NoStore THEN stores
                 ELSE [stores EXCEPT ![id].blocked = FALSE]
    /\ probe' = [probe EXCEPT !.blocked = @ \ {id}]

\* Two up stores, none blocked, no call in progress.
InitBlock ==
    /\ InitRegions
    /\ opt = DefaultOptions
    /\ operators = {}
    /\ hitsCounter = NoHits
    /\ sched = Idle
    /\ running = TRUE
    /\ quit = "open"
    /\ workers = [w \in Workers |-> "loop"]
    /\ mu = "free"
    /\ stores = [s \in StoreIDs |-> Blockable(StoreInfo("Up", s), FALSE)]
    /\ kvStores = [s \in StoreIDs |-> StoreMeta(StoreInfo("Up", s))]
    /\ probe = [fn |-> "block", id |-> 0, newStore |-> NoStore, blocked |-> {}]

NextBlock ==
    \/ \E id \in StoreIDs, stats \in 0..MaxStats :
          StoreCallReads("handleStoreHeartbeat", id, stats)
    \/ \E id \in StoreIDs, weight \in 1..MaxWeight :
          StoreCallReads("SetStoreWeight", id, weight)
    \/ \E id \in StoreIDs : StoreCallReads("RemoveStore", id, 0)
    \/ \E id \in StoreIDs, address \in Addresses :
          StoreCallReads("putStore", id, address)
    \/ \E saveOK \in BOOLEAN : StoreCallWrites(saveOK)
    \/ \E id \in StoreIDs : BlockStore(id)
    \/ \E id \in StoreIDs : UnblockStore(id)

SpecBlock == InitBlock /\ [][NextBlock]_vars

\* -------------------------------------------------------------------- stop
\* stop(), line 1235: the caller takes the write lock.
StopLock ==
    /\ workers["stop"] = "called"
    /\ mu = "free"
    /\ mu' = "stop"
    /\ workers' = [workers EXCEPT !["stop"] = "locked"]
    /\ UNCHANGED <<regions, stores, kvRegions, kvStores, changedRegions,
                   prepareChecker, hotSpotCache, hb, bg, ret, schedulerVars,
                   running, quit, probe>>

\* stop(), lines 1237-1246: a cluster that does not run is left as it is;
\* one that runs is marked stopped, quit is closed, the coordinator is told
\* to stop; the lock is released either way.
StopSignal ==
    /\ workers["stop"] = "locked"
    /\ IF ~running
       THEN /\ workers' = [workers EXCEPT !["stop"] = "returned"]
            /\ UNCHANGED <<running, quit>>
       ELSE /\ running' = FALSE
            /\ quit' = "closed"
            /\ workers' = [workers EXCEPT !["stop"] = "waiting"]
    /\ mu' = "free"
    /\ UNCHANGED <<regions, stores, kvRegions, kvStores, changedRegions,
                   prepareChecker, hotSpotCache, hb, bg, ret, schedulerVars,
                   probe>>

\* stop(), line 1247: wg.Wait() returns when the three goroutines are done.
StopWait ==
    /\ workers["stop"] = "waiting"
    /\ \A w \in Workers : workers[w] = "exited"
    /\ workers' = [workers EXCEPT !["stop"] = "returned"]
    /\ UNCHANGED <<regions, stores, kvRegions, kvStores, changedRegions,
                   prepareChecker, hotSpotCache, hb, bg, ret, schedulerVars,
                   running, quit, mu, probe>>

\* runBackgroundJobs, lines 1204-1208: between two ticks the select takes
\* the closed quit channel and the goroutine is done.
BackgroundQuit ==
    /\ workers["background"] = "loop"
    /\ bg.pc = "idle"
    /\ quit = "closed"
    /\ workers' = [workers EXCEPT !["background"] = "exited"]
    /\ UNCHANGED <<regions, stores, kvRegions, kvStores, changedRegions,
                   prepareChecker, hotSpotCache, hb, bg, ret, schedulerVars,
                   running, quit, mu, probe>>

\* runCoordinator (lines 1216-1226) and syncRegions (lines 1228-1232): the
\* coordinator returns once stop() has cancelled its context, the region
\* syncer's server once quit is closed.
WorkerQuit(w) ==
    /\ w \in {"coordinator", "syncer"}
    /\ workers[w] = "loop"
    /\ quit = "closed"
    /\ workers' = [workers EXCEPT ![w] = "exited"]
    /\ UNCHANGED <<regions, stores, kvRegions, kvStores, changedRegions,
                   prepareChecker, hotSpotCache, hb, bg, ret, schedulerVars,
                   running, quit, mu, probe>>

\* RemoveStore takes the write lock.
RemoveStoreLocked == mu = "free" /\ RemoveStoreCall

\* A running cluster of two up stores and no region; stop() has been called.
InitStop ==
    /\ InitRegions /\ InitStoresUp
    /\ opt = DefaultOptions
    /\ operators = {}
    /\ hitsCounter = NoHits
    /\ sched = Idle
    /\ running = TRUE
    /\ quit = "open"
    /\ workers = [w \in Workers \cup {"stop"} |->
                    IF w = "stop" THEN "called" ELSE "loop"]
    /\ mu = "free"
    /\ probe = NoProbe

NextStop ==
    \/ StopLock
    \/ StopSignal
    \/ StopWait
    \/ CheckStores
    \/ BackgroundQuit
    \/ \E w \in Workers : WorkerQuit(w)
    \/ RemoveStoreLocked

SpecStop == InitStop /\ [][NextStop]_vars

\* The scheduler runs every goroutine that can take a step; a select whose
\* quit case is ready again and again takes it in the end, because it
\* chooses among its ready cases at random.
StopFair ==
    /\ WF_vars(StopLock) /\ WF_vars(StopSignal) /\ WF_vars(StopWait)
    /\ \A w \in Workers : WF_vars(WorkerQuit(w))
    /\ \A s \in StoreIDs : WF_vars(CheckStoresCount(s))
    /\ WF_vars(\E saveOK \in BOOLEAN : CheckStoresBury(saveOK))
    /\ SF_vars(BackgroundQuit)

SpecStopFair == InitStop /\ [][NextStop]_vars /\ StopFair

\* --------------------------------------------------------- start and stop
\* What start() finds: the metadata and the namespaces load ("ok"), or the
\* named call returns an error.
StartOutcomes == {"ok", "LoadMeta", "LoadStores", "LoadRegions", "ReloadNamespaces"}

\* LoadStores (lines 1171-1173): the stores of the metadata store are put in
\* the new cache, the stores in loaded before an error stops the loading;
\* the weights are at their default in this specification.
LoadStores(loaded) ==
    [s \in StoreIDs |->
        IF s \in loaded /\ kvStores[s] # NoStore
        THEN [StoreInfo(kvStores[s].state, kvStores[s].address)
                EXCEPT !.labels = kvStores[s].labels]
        ELSE NoStore]

\* mutant: start() does not look at running
StartAnyway(outcome, loaded) ==
    /\ mu = "free"
    /\ probe.starts < MaxStarts
    /\ UNCHANGED <<kvRegions, kvStores, hb, bg, schedulerVars, mu>>
    /\ changedRegions' = <<>>
    /\ prepareChecker' = 0
    /\ hotSpotCache' = {}
    /\ regions' = kvRegions
    /\ stores' = LoadStores(loaded)
    /\ ret' = RetOK(0)
    /\ quit' = "open"
    /\ workers' = [w \in DOMAIN workers |->
                     IF w \in Workers THEN "loop" ELSE workers[w]]
    /\ running' = TRUE
    /\ probe' = [probe EXCEPT
                   !.last = "started",
                   !.starts = @ + 1,
                   !.launched = @ + 3,
                   !.earlier = @ + Cardinality({ w \in Workers : workers[w] = "loop" })]

\* start() (lines 1120-1157) with initCluster (lines 1108-1118) and
\* loadClusterInfo (lines 1160-1192), the write lock held from the first
\* line to the last. probe counts the successful calls (starts), the
\* goroutines launched (launched) and the goroutines of earlier starts that
\* have not returned yet (earlier).
Start(outcome, loaded) ==
    /\ mu = "free"
    /\ UNCHANGED <<kvRegions, kvStores, hb, bg, schedulerVars, mu>>
    /\ IF running
       THEN /\ ret' = RetOK(0)
            /\ probe' = [probe EXCEPT !.last = "already started"]
            /\ UNCHANGED <<regions, stores, changedRegions, prepareChecker,
                           hotSpotCache, running, quit, workers>>
       ELSE /\ probe.starts < MaxStarts
            /\ changedRegions' = <<>>
            /\ prepareChecker' = 0
            /\ hotSpotCache' = {}
            /\ IF outcome = "LoadMeta"
               THEN /\ ret' = RetErr("Storage")
                    /\ probe' = [probe EXCEPT !.last = "error"]
                    /\ regions' = [i \in RegionIDs |-> NoRegion]
                    /\ stores' = [s \in StoreIDs |-> NoStore]
                    /\ UNCHANGED <<running, quit, workers>>
               ELSE IF ~probe.bootstrapped
               THEN /\ ret' = RetOK(0)
                    /\ probe' = [probe EXCEPT !.last = "not bootstrapped"]
                    /\ regions' = [i \in RegionIDs |-> NoRegion]
                    /\ stores' = [s \in StoreIDs |-> NoStore]
                    /\ UNCHANGED <<running, quit, workers>>
               ELSE IF outcome = "LoadStores"
               THEN /\ ret' = RetErr("Storage")
                    /\ probe' = [probe EXCEPT !.last = "error"]
                    /\ regions' = [i \in RegionIDs |-> NoRegion]
                    /\ stores' = LoadStores(loaded)
                    /\ UNCHANGED <<running, quit, workers>>
               ELSE IF outcome \in {"LoadRegions", "ReloadNamespaces"}
               THEN /\ ret' = RetErr(IF outcome = "LoadRegions"
                                     THEN "Storage" ELSE "Namespaces")
                    /\ probe' = [probe EXCEPT !.last = "error"]
                    /\ regions' = kvRegions
                    /\ stores' = LoadStores(StoreIDs)
                    /\ UNCHANGED <<running, quit, workers>>
               ELSE /\ ret' = RetOK(0)
                    /\ regions' = kvRegions
                    /\ stores' = LoadStores(StoreIDs)
                    /\ quit' = "open"
                    /\ workers' = [w \in DOMAIN workers |->
                                     IF w \in Workers THEN "loop" ELSE workers[w]]
                    /\ running' = TRUE
                    /\ probe' = [probe EXCEPT
                                   !.last = "started",
                                   !.starts = @ + 1,
                                   !.launched = @ + 3,
                                   !.earlier = @ + Cardinality(
                                       { w \in Workers : workers[w] = "loop" })]

\* putMetaLocked, line 1518: bootstrapping saves the cluster's metadata.
SaveMeta ==
    /\ ~probe.bootstrapped
    /\ probe' = [probe EXCEPT !.bootstrapped = TRUE]
    /\ UNCHANGED <<regions, stores, kvRegions, kvStores, changedRegions,
                   prepareChecker, hotSpotCache, hb, bg, ret, schedulerVars,
                   lifeVars>>

\* stop() is called again.
StopCalled ==
    /\ workers["stop"] = "returned"
    /\ workers' = [workers EXCEPT !["stop"] = "called"]
    /\ UNCHANGED <<regions, stores, kvRegions, kvStores, changedRegions,
                   prepareChecker, hotSpotCache, hb, bg, ret, schedulerVars,
                   running, quit, mu, probe>>

\* stop(), line 1247: wg counts the goroutines of every start().
StopWaitsForAll == probe.earlier = 0 /\ StopWait

\* A goroutine of an earlier start() returns.
EarlierWorkerQuit ==
    /\ probe.earlier > 0
    /\ probe' = [probe EXCEPT !.earlier = @ - 1]
    /\ UNCHANGED <<regions, stores, kvRegions, kvStores, changedRegions,
                   prepareChecker, hotSpotCache, hb, bg, ret, schedulerVars,
                   lifeVars>>

\* The cluster before its first start(): two stores are in the metadata
\* store, the cluster's metadata is there or not, no goroutine runs.
InitLife ==
    /\ InitRegions /\ InitStoresUp
    /\ opt = DefaultOptions
    /\ operators = {}
    /\ hitsCounter = NoHits
    /\ sched = Idle
    /\ running = FALSE
    /\ quit = "nil"
    /\ workers = [w \in Workers \cup {"stop"} |->
                    IF w = "stop" THEN "returned" ELSE "none"]
    /\ mu = "free"
    /\ probe \in [fn : {"life"}, bootstrapped : BOOLEAN, last : {"none"},
                  starts : {0}, launched : {0}, earlier : {0}]

NextLife ==
    \/ \E outcome \in StartOutcomes, loaded \in SUBSET StoreIDs :
          Start(outcome, loaded)
    \/ SaveMeta
    \/ StopCalled
    \/ StopLock
    \/ StopSignal
    \/ StopWaitsForAll
    \/ BackgroundQuit
    \/ \E w \in Workers : WorkerQuit(w)
    \/ EarlierWorkerQuit
    \/ RemoveStoreLocked
    \/ mu = "free" /\ StoreHeartbeat

SpecLife == InitLife /\ [][NextLife]_vars

\* ------------------------------------------------------------------ claims
Cached(cache) == { cache[i] : i \in { j \in RegionIDs : cache[j] # NoRegion } }

NoIntersection(cache) ==
    \A a \in Cached(cache), b \in Cached(cache) :
        a.id # b.id => ~RangesIntersect(a, b)

\* (version, conf_ver) of a is below that of b in lexicographic order
EpochLess(a, b) ==
    \/ a.version < b.version
    \/ a.version = b.version /\ a.confVer < b.confVer

\* the outcome leaves the cache, the stores, the metadata store, the channel,
\* the prepare-checker and the hot cache as the call found them
Untouched(out) ==
    /\ out.regions = regions
    /\ out.stores = stores
    /\ out.kvRegions = kvRegions
    /\ out.changedRegions = changedRegions
    /\ out.prepareChecker = prepareChecker
    /\ out.hotSpotCache = hotSpotCache

\* A cached region is older than another if neither part of its epoch is
\* greater and one is lower.
Older(a, b) ==
    /\ a.version <= b.version
    /\ a.confVer <= b.confVer
    /\ a.version < b.version \/ a.confVer < b.confVer

\* C1 as stated: whatever the interleaving of the heartbeats of one region
\* id, no step replaces the cached region by one of an older epoch.
C1_NoOlderEpochReplacesNewer ==
    [][\A id \in RegionIDs :
        (regions[id] # NoRegion /\ regions'[id] # NoRegion)
            => ~Older(regions'[id], regions[id])]_vars

\* C2: a heartbeat for a cached region id whose version is lower than the
\* cached version, or whose conf_ver is lower than the cached conf_ver,
\* returns RegionIsStale and leaves the region cache, the metadata store, the
\* changed_regions channel, the hot cache and the prepare-checker as they were.
C2_StaleHeartbeatChangesNothing ==
    \A region \in SingleRegionInputs, saveOK \in BOOLEAN :
        ( /\ regions[region.id] # NoRegion
          /\ \/ region.version < regions[region.id].version
             \/ region.confVer < regions[region.id].confVer )
        => LET out == HeartbeatOutcome(region, saveOK, TRUE)
           IN  out.ret.err = "RegionIsStale" /\ Untouched(out)

\* A stale heartbeat was refused against the cached region of its id while
\* the hot cache and the metadata store hold that region.
C2_Witness ==
    /\ ret = RetStale("origin")
    /\ regions[1] # NoRegion
    /\ kvRegions[1] # NoRegion
    /\ 1 \in hotSpotCache

\* C3 as stated: after two heartbeats of one region id processed one after the
\* other, the first accepted, the cached region carries the greater of the two
\* epochs in lexicographic order.
C3_LexicographicMaximum ==
    [][\A h2 \in SingleRegionInputs, saveOK \in BOOLEAN :
        ( /\ ret.err = "ok"
          /\ regions[h2.id] # NoRegion
          /\ ProcessRegionHeartbeat(h2, saveOK, TRUE) )
        => LET h1 == regions[h2.id]
               after == regions'[h2.id]
           IN  /\ after # NoRegion
               /\ IF EpochLess(h1, h2)
                  THEN after.version = h2.version /\ after.confVer = h2.confVer
                  ELSE after.version = h1.version /\ after.confVer = h1.confVer]_vars

\* C3 amended: after two heartbeats h1, h2 of one region id processed one
\* after the other, h1 accepted, the cached region carries h2's epoch if
\* neither h2's version nor h2's conf_ver is lower than h1's, and h1's epoch
\* otherwise.
C3_ComponentwiseEpoch ==
    \A h2 \in SingleRegionInputs, saveOK \in BOOLEAN :
        (ret.err = "ok" /\ regions[h2.id] # NoRegion)
        => LET h1 == regions[h2.id]
               after == HeartbeatOutcome(h2, saveOK, TRUE).regions[h2.id]
           IN  /\ after # NoRegion
               /\ IF h2.version >= h1.version /\ h2.confVer >= h1.confVer
                  THEN after.version = h2.version /\ after.confVer = h2.confVer
                  ELSE after.version = h1.version /\ after.confVer = h1.confVer

\* The second heartbeat was refused although the cached epoch is not the
\* greatest in lexicographic order: a heartbeat of a greater version and a
\* lower conf_ver is the only one the cached region (1, MaxConfVer) refuses.
C3_Witness ==
    /\ ret = RetStale("origin")
    /\ regions[1] # NoRegion
    /\ regions[1].version = 1
    /\ regions[1].confVer = MaxConfVer

\* C4: a heartbeat for a region id that is not cached is refused with
\* RegionIsStale, nothing changed, if its key range intersects a cached region
\* of a greater version; otherwise it is accepted as a new region: written to
\* the metadata store (SaveRegion not failing), put into the cache and fed to
\* the prepare-checker.
C4_NewRegionAcceptedUnlessOverlapNewer ==
    \A region \in HeartbeatInputs, saveOK \in BOOLEAN :
        regions[region.id] = NoRegion
        => LET out == HeartbeatOutcome(region, saveOK, TRUE)
           IN  IF \E x \in Cached(regions) :
                      RangesIntersect(x, region) /\ x.version > region.version
               THEN out.ret.err = "RegionIsStale" /\ Untouched(out)
               ELSE /\ out.ret.err = "ok"
                    /\ out.regions[region.id] = region
                    /\ saveOK => out.kvRegions[region.id] = GetMeta(region)
                    /\ out.prepareChecker = Collect(prepareChecker)

\* A new region was refused because of an overlapping cached region.
C4_Witness ==
    /\ ret = RetStale("overlap")
    /\ \E x \in Cached(regions) : x.version = MaxVersion

C7_StoreCountersExact ==
    \A s \in StoreIDs :
        stores[s] # NoStore =>
            /\ stores[s].leaderCount = GetStoreLeaderCount(regions, s)
            /\ stores[s].regionCount = GetStoreRegionCount(regions, s)

\* C8 as stated: no two distinct stores that are not tombstones have the
\* same address.
C8_AddressesUnique ==
    \A a \in StoreIDs, b \in StoreIDs :
        ( /\ a # b
          /\ stores[a] # NoStore /\ stores[a].state # "Tombstone"
          /\ stores[b] # NoStore /\ stores[b].state # "Tombstone" )
        => stores[a].address # stores[b].address

\* C9 as stated: a store in state Tombstone stays a tombstone until it is
\* deleted.
C9_TombstoneIsTerminal ==
    [][\A s \in StoreIDs :
        (stores[s] # NoStore /\ stores[s].state = "Tombstone")
            => (stores'[s] = NoStore \/ stores'[s].state = "Tombstone")]_vars

\* C10 as stated: BuryStore(id, false), called directly or by checkStores,
\* takes an Offline store to Tombstone only if no region has a peer on it at
\* that moment.
C10_BuriedOnlyWhenEmpty ==
    [][\A s \in StoreIDs :
        ( /\ stores[s] # NoStore /\ stores[s].state = "Offline"
          /\ stores'[s] # NoStore /\ stores'[s].state = "Tombstone"
          /\ \/ \E saveOK \in BOOLEAN : BuryStore(s, FALSE, saveOK)
             \/ /\ bg.pc = "bury"
                /\ bg.store = s
                /\ \E saveOK \in BOOLEAN : CheckStoresBury(saveOK) )
        => GetStoreRegionCount(regions, s) = 0]_vars

\* C11: RemoveStore takes an Up store to Offline (SaveStore not failing);
\* on an Offline store it succeeds and changes nothing; on a tombstone it
\* returns StoreTombstoned and on an unknown id StoreNotFound, the cache and
\* the metadata store unchanged; it never makes a tombstone.
C11_RemoveStoreContract ==
    [][\A id \in StoreIDs, saveOK \in BOOLEAN :
        RemoveStore(id, saveOK)
        => /\ stores[id] = NoStore
                => /\ ret'.err = "StoreNotFound"
                   /\ UNCHANGED <<stores, kvStores>>
           /\ (stores[id] # NoStore /\ stores[id].state = "Tombstone")
                => /\ ret'.err = "StoreTombstoned"
                   /\ UNCHANGED <<stores, kvStores>>
           /\ (stores[id] # NoStore /\ stores[id].state = "Offline")
                => /\ ret'.err = "ok"
                   /\ UNCHANGED <<stores, kvStores>>
           /\ (stores[id] # NoStore /\ stores[id].state = "Up" /\ saveOK)
                => /\ ret'.err = "ok"
                   /\ stores' = [stores EXCEPT ![id].state = "Offline"]
                   /\ kvStores'[id].state = "Offline"
           /\ \A s \in StoreIDs :
                  (stores'[s] # NoStore /\ stores'[s].state = "Tombstone")
                      => (stores[s] # NoStore /\ stores[s].state = "Tombstone")]_vars

\* RemoveStore was refused on a tombstone, which is still one.
C11_Witness ==
    /\ ret = RetErr("StoreTombstoned")
    /\ \E s \in StoreIDs : stores[s] # NoStore /\ stores[s].state = "Tombstone"

\* C12: BuryStore on an Up store fails and leaves it Up unless force is set,
\* and then the store becomes a tombstone; on a tombstone it succeeds and
\* changes nothing; on an Offline store it makes a tombstone whatever force
\* is; the changes provided SaveStore does not fail.
C12_BuryStoreContract ==
    \A id \in StoreIDs, force \in BOOLEAN, saveOK \in BOOLEAN :
        LET out == BuryStoreOutcome(id, force, saveOK)
            buried == [stores EXCEPT ![id].state = "Tombstone"]
        IN  stores[id] # NoStore
            => /\ (stores[id].state = "Up" /\ ~force)
                    => /\ out.ret.err \notin {"ok"}
                       /\ out.stores = stores
                       /\ out.kvStores = kvStores
               /\ (stores[id].state = "Up" /\ force /\ saveOK)
                    => out.ret.err = "ok" /\ out.stores = buried
               /\ stores[id].state = "Tombstone"
                    => /\ out.ret.err = "ok"
                       /\ out.stores = stores
                       /\ out.kvStores = kvStores
               /\ (stores[id].state = "Offline" /\ saveOK)
                    => out.ret.err = "ok" /\ out.stores = buried

\* BuryStore without force was refused on a store that is Up.
C12_Witness ==
    /\ ret = RetErr("StoreIsUp")
    /\ \E s \in StoreIDs : stores[s] # NoStore /\ stores[s].state = "Up"

C14_RemoveTombStoneRecordsContract ==
    [][/\ \A deleted \in SUBSET StoreIDs :
            (RemoveTombStoneRecords(deleted) /\ ret'.err = "ok")
            => \A s \in StoreIDs :
                   IF stores[s] # NoStore /\ stores[s].state = "Tombstone"
                   THEN stores'[s] = NoStore /\ kvStores'[s] = NoStore
                   ELSE stores'[s] = stores[s] /\ kvStores'[s] = kvStores[s]
       /\ \A id \in StoreIDs, stats \in 0..MaxStats :
            (HandleStoreHeartbeat(id, stats) /\ stores[id] = NoStore)
            => ret'.err = "StoreNotFound" /\ stores'[id] = NoStore]_vars

\* A tombstone was deleted, the other store is still there, and a heartbeat
\* of the deleted store was refused.
C14_Witness ==
    /\ ret = RetErr("StoreNotFound")
    /\ \E s \in StoreIDs, t \in StoreIDs :
           /\ stores[s] = NoStore /\ kvStores[s] = NoStore
           /\ stores[t] # NoStore /\ stores[t].state # "Tombstone"

\* C15 as stated: a call on the stores that returns the metadata store's
\* error leaves the stores in memory as they were.
C15_FailedWriteChangesNothing ==
    [][ret'.err = "Storage" => stores' = stores]_vars

\* C18: with nobody receiving from the channel its queue never holds more
\* than defaultChangedRegionsLimit regions; a heartbeat that finds it full is
\* not blocked (the call is enabled and completes), leaves the queue as it is,
\* and returns and leaves the cache, the stores, the metadata store, the
\* prepare-checker and the hot cache as the same heartbeat on an empty channel.
C18_FullChannelDropsNotification ==
    /\ Len(changedRegions) <= defaultChangedRegionsLimit
    /\ Len(changedRegions) = defaultChangedRegionsLimit =>
        /\ ENABLED HeartbeatUnreceived
        /\ \A region \in SingleRegionInputs, saveOK \in BOOLEAN :
            LET full == HeartbeatOutcome(region, saveOK, TRUE)
                free == HeartbeatOutcomeOn(<<>>, region, saveOK, TRUE)
            IN  /\ full.changedRegions = changedRegions
                /\ full.ret = free.ret
                /\ full.regions = free.regions
                /\ full.stores = free.stores
                /\ full.kvRegions = free.kvRegions
                /\ full.prepareChecker = free.prepareChecker
                /\ full.hotSpotCache = free.hotSpotCache

\* The channel is full, and two heartbeats with saveKV set have run since it
\* held one region less: one saved the region with two peers and filled the
\* channel, the next brought the cache to version 2 and was not queued.
C18_Witness ==
    /\ Len(changedRegions) = defaultChangedRegionsLimit
    /\ kvRegions[1] # NoRegion
    /\ kvRegions[1].version = 1
    /\ kvRegions[1].peers = {1, 2}
    /\ regions[1].version = 2
    /\ ret.err = "ok"

\* C16: a heartbeat whose SaveRegion fails returns what it returns when the
\* write succeeds, success included, and leaves the cache, the stores, the
\* prepare-checker, the hot cache and the channel as the heartbeat whose write
\* succeeds; the metadata store alone differs, by the entry not written.
C16_FailedSaveRegionIsNotFatal ==
    \A region \in SingleRegionInputs :
        LET failed == HeartbeatOutcome(region, FALSE, TRUE)
            saved == HeartbeatOutcome(region, TRUE, TRUE)
        IN  /\ failed.ret = saved.ret
            /\ failed.regions = saved.regions
            /\ failed.stores = saved.stores
            /\ failed.prepareChecker = saved.prepareChecker
            /\ failed.hotSpotCache = saved.hotSpotCache
            /\ failed.changedRegions = saved.changedRegions
            /\ failed.kvRegions =
                   [saved.kvRegions EXCEPT ![region.id] = kvRegions[region.id]]

\* The cache holds a region of a newer epoch than the metadata store, whose
\* write failed, and the heartbeat returned success.
C16_Witness ==
    /\ ret.err = "ok"
    /\ regions[1] # NoRegion
    /\ kvRegions[1] # GetMeta(regions[1])
    /\ kvRegions[1] # NoRegion => EpochLess(kvRegions[1], regions[1])

\* C17 as stated: a heartbeat puts its region on the channel only if saveKV
\* is set and SaveRegion succeeded.
C17_QueuedOnlyWhenSaved ==
    [][\A region \in SingleRegionInputs, saveOK \in BOOLEAN :
        ( /\ ProcessRegionHeartbeat(region, saveOK, TRUE)
          /\ changedRegions' # changedRegions )
        => (SaveKV(region, regions[region.id]) /\ saveOK)]_vars

\* C19: a putStore that passes the address check is refused for its labels
\* exactly when strictly-match-label is set and, among the labels checked (the
\* submitted ones for a new store, the stored ones overridden by the
\* submitted ones for an existing store), a configured location label has no
\* value or a label's key is not configured; a refused call leaves the cache
\* and the metadata store as they are; without strictly-match-label no call
\* is refused for its labels.
C19_StrictLabelCheck ==
    \A id \in StoreIDs, address \in Addresses, labels \in LabelSets,
       locationLabels \in SUBSET LabelKeys, strict \in BOOLEAN,
       saveOK \in BOOLEAN :
        LET out == PutStoreOutcome(id, address, labels, locationLabels,
                                   strict, saveOK)
            checked == [k \in LabelKeys |->
                           IF stores[id] # NoStore /\ labels[k] = NoLabel
                           THEN stores[id].labels[k] ELSE labels[k]]
            incorrect ==
                \/ \E k \in locationLabels : checked[k] \in {NoLabel, ""}
                \/ \E k \in LabelKeys \ locationLabels : checked[k] # NoLabel
            refused == out.ret.err \in {"LabelKeyMissing", "LabelKeyUnknown"}
        IN  /\ ~DuplicatedAddress(stores, id, address)
                => (refused <=> (strict /\ incorrect))
            /\ refused => (out.stores = stores /\ out.kvStores = kvStores)
            /\ ~strict => ~refused

\* A putStore was refused for a missing location label while a store of the
\* cluster carries labels.
C19_Witness ==
    /\ ret.err = "LabelKeyMissing"
    /\ \E s \in StoreIDs : stores[s] # NoStore /\ stores[s].labels # NoLabels

\* C20: a store heartbeat of an unknown store id returns StoreNotFound and
\* changes neither the stores nor the metadata store; the heartbeat of a known
\* store succeeds, sets that store's statistics and leaves its state, address,
\* labels, weight and counters, every other store and the metadata store as
\* they were; no store comes into being by a heartbeat. Regions, channel and
\* the other components are not touched either.
C20_StoreHeartbeatFrame ==
    [][\A id \in StoreIDs, stats \in 0..MaxStats :
        HandleStoreHeartbeat(id, stats) =>
            /\ kvStores' = kvStores
            /\ regions' = regions /\ kvRegions' = kvRegions
            /\ changedRegions' = changedRegions
            /\ \A s \in StoreIDs \ {id} : stores'[s] = stores[s]
            /\ (stores'[id] = NoStore) <=> (stores[id] = NoStore)
            /\ IF stores[id] = NoStore
               THEN ret'.err = "StoreNotFound"
               ELSE /\ ret'.err = "ok"
                    /\ stores'[id].stats = stats
                    /\ stores'[id].state = stores[id].state
                    /\ stores'[id].address = stores[id].address
                    /\ stores'[id].labels = stores[id].labels
                    /\ stores'[id].weight = stores[id].weight
                    /\ stores'[id].leaderCount = stores[id].leaderCount
                    /\ stores'[id].regionCount = stores[id].regionCount]_vars

\* An Offline store of another weight than the default has reported
\* statistics, while the other store's record has been removed.
C20_Witness ==
    /\ ret.err = "ok"
    /\ \E s \in StoreIDs :
        /\ stores[s] # NoStore
        /\ stores[s].state = "Offline"
        /\ stores[s].weight = MaxWeight
        /\ stores[s].stats = MaxStats
        /\ \E t \in StoreIDs \ {s} : stores[t] = NoStore

C26_AdmittedIffNoFilterRejects ==
    probe.fn = "filtered" =>
        /\ ~probe.source <=>
               \A i \in DOMAIN probe.filters :
                   ~FilterSource(probe.filters[i], probe.options, probe.store)
        /\ ~probe.target <=>
               \A i \in DOMAIN probe.filters :
                   ~FilterTarget(probe.filters[i], probe.options, probe.store)
        /\ probe.filters = <<>> => (~probe.source /\ ~probe.target)

\* A list of two filters whose first lets the store pass as source and whose
\* second does not; the store passes as target.
C26_Witness ==
    /\ probe.fn = "filtered"
    /\ Len(probe.filters) = 2
    /\ ~FilterSource(probe.filters[1], probe.options, probe.store)
    /\ FilterSource(probe.filters[2], probe.options, probe.store)
    /\ probe.source
    /\ ~probe.target

\* C27: StoreStateFilter refuses a store as source iff tombstone, or down
\* longer than the maximum, or (TransferLeader and (disconnected or blocked)),
\* or (MoveRegion and move_filter); as target iff tombstone, or offline, or
\* down longer than the maximum, or (TransferLeader and (disconnected or
\* blocked or busy or reject-leader)), or (MoveRegion and (more pending peers
\* than a nonzero maximum, or move_filter)); move_filter is busy or overloaded
\* or a snapshot count above the maximum. An Offline store that is healthy
\* otherwise passes as source and never as target.
C27_StoreStateFilterTable ==
    probe.fn = "filtered" =>
        LET f == probe.filters[1]
            st == probe.store
            o == probe.options
            down == st.downTime > o.maxStoreDownTime
            move == \/ st.busy \/ st.overloaded
                    \/ st.sendingSnap > o.maxSnapshotCount
                    \/ st.receivingSnap > o.maxSnapshotCount
                    \/ st.applyingSnap > o.maxSnapshotCount
            pending == o.maxPendingPeerCount # 0
                           /\ st.pendingPeerCount > o.maxPendingPeerCount
            healthy == ~down /\ ~move /\ ~pending /\ ~st.disconnected
                           /\ ~st.blocked /\ ~st.rejectLeader
        IN  /\ probe.source <=>
                  \/ st.state = "Tombstone" \/ down
                  \/ f.TransferLeader /\ (st.disconnected \/ st.blocked)
                  \/ f.MoveRegion /\ move
            /\ probe.target <=>
                  \/ st.state = "Tombstone" \/ st.state = "Offline" \/ down
                  \/ f.TransferLeader /\ (\/ st.disconnected \/ st.blocked
                                          \/ st.busy \/ st.rejectLeader)
                  \/ f.MoveRegion /\ (pending \/ move)
            /\ (st.state = "Offline" /\ healthy) => (~probe.source /\ probe.target)

\* An Offline store, healthy otherwise, passed the filter of a region move as
\* source and was refused as target.
C27_Witness ==
    /\ probe.fn = "filtered"
    /\ probe.filters[1].type = "store-state-filter"
    /\ probe.filters[1].MoveRegion /\ ~probe.filters[1].TransferLeader
    /\ probe.store.state = "Offline"
    /\ probe.store.pendingPeerCount = MaxPending
    /\ probe.options.maxPendingPeerCount = 0
    /\ ~probe.source
    /\ probe.target

\* C23: checkBootstrapRequest accepts a request exactly when it carries a
\* store with a nonzero id and a region with a nonzero id, empty start and
\* end keys and exactly one peer, whose store id is the store's id and whose
\* id is not zero.
C23_BootstrapRequestAccepted ==
    probe.fn = "bootstrap checked" =>
        LET req == probe.req
        IN  (probe.err = "ok") <=>
                /\ req.store # Nil
                /\ req.store.id # 0
                /\ req.region # Nil
                /\ req.region.id # 0
                /\ req.region.startKey = 0
                /\ req.region.endKey = 0
                /\ Len(req.region.peers) = 1
                /\ req.region.peers[1].storeId = req.store.id
                /\ req.region.peers[1].id # 0

\* A request with one peer on the store was accepted.
C23_Witness ==
    /\ probe.fn = "bootstrap checked"
    /\ probe.err = "ok"
    /\ probe.req.store.id = MaxStoreID
    /\ Len(probe.req.region.peers) = 1

C22_HotAndAbnormalRegionsAreSkipped ==
    [][/\ (sched.pc = "retry" /\ sched'.pc = "idle" /\ ret'.ops # <<>>) =>
            LET region == regions[ret'.ops[1].regionID] IN
            /\ ~IsRegionHot(hotSpotCache, region)
            /\ Cardinality(region.peers) = opt.maxReplicas
       /\ (/\ sched.pc = "retry" /\ sched'.pc = "retry" /\ sched'.i # sched.i
           /\ sched'.region # 0
           /\ \/ IsRegionHot(hotSpotCache, regions[sched'.region])
              \/ Cardinality(regions[sched'.region].peers) # opt.maxReplicas) =>
            /\ hitsCounter' = HitsPut(hitsCounter, sched.source, 0)
            /\ sched'.i = sched.i + 1
            /\ ret' = ret]_vars

\* the second try of a call has just passed over a hot region of MaxReplicas
\* peers, and both tries have recorded their hit for the source
C22_Witness ==
    /\ sched.pc = "retry"
    /\ sched.i = 2
    /\ sched.region # 0
    /\ IsRegionHot(hotSpotCache, regions[sched.region])
    /\ Cardinality(regions[sched.region].peers) = opt.maxReplicas
    /\ hitsCounter[getKey(sched.source, 0)] = [count |-> 1, age |-> 0]
\* C28 as stated: while Schedule runs, a store is in the performance list
\* only if its tag is Performance, and a store of the Storage tag or of any
\* other tag is in the storage list.
C28_OtherTagsInStorageTier ==
    sched.pc \in {"select", "retry"} =>
        \A s \in ScheduleStoreIDs :
            /\ s \in ListStores(sched.performanceStores) =>
                  stores[s].storeType = "Performance"
            /\ stores[s].storeType # "Performance" =>
                  s \in ListStores(sched.storageStores)

C30_OperatorStaysInItsTier ==
    ("ops" \in DOMAIN ret /\ ret.ops # <<>>) =>
        LET op == ret.ops[1]
            call == ret.calls[Len(ret.calls)]
        IN  /\ op.source \in ListStores(call.include)
            /\ op.target \notin ListStores(call.excluded)
            /\ op.source # op.target
            /\ ~(/\ stores[op.source].storeType = "Storage"
                 /\ stores[op.target].storeType = "Performance")
            /\ ~(/\ stores[op.source].storeType = "Performance"
                 /\ stores[op.target].storeType = "Storage")

\* the second scheduleImpl call has returned an operator in a cluster that
\* has a store in each of the two lists
C30_Witness ==
    /\ "ops" \in DOMAIN ret
    /\ ret.ops # <<>>
    /\ Len(ret.calls) = 2
    /\ ListStores(ret.calls[2].excluded) # {}
    /\ stores[ret.ops[1].target].storeType = "Other"
\* C25 as stated, its part on the unit of work: once stop() has closed quit
\* the background-jobs worker finishes the tick it is in and starts no
\* other.
C25_NoTickAfterQuit ==
    [][(quit = "closed" /\ bg.pc = "idle") => bg'.pc = "idle"]_vars

\* What holds of stop(): once it has the lock it returns, with running
\* false and the three workers gone ...
StopReturns ==
    (workers["stop"] = "locked") ~>
        (/\ workers["stop"] = "returned" /\ ~running
         /\ \A w \in Workers : workers[w] = "exited")

\* ... and a tick that waits for the write lock stop() holds takes it later.
StopLetsTheTickIn ==
    (bg.pc = "bury" /\ mu = "stop") ~> (bg.pc # "bury")

\* C31 as stated: the source filter rejects a store exactly when put(source,
\* nil) has recorded it hitsStoreCountThreshold times or more since the last
\* operator and the last of these records is not older than hitsStoreTTL.
C31_RejectedAtThreshold ==
    (1 \in buildSourceFilter(hitsCounter).blacklist)
        <=> (probe.puts >= hitsStoreCountThreshold /\ probe.since <= hitsStoreTTL)

\* C32: the try in which transferPeer builds an operator leaves no hit
\* record for the source alone nor for the pair of source and target, so
\* that neither filter built from the records rejects them; a try in which
\* transferPeer finds no replacement store records a hit for the source, one
\* in which shouldBalance fails records a hit for the pair, and neither
\* returns an operator.
C32_HitsClearedByOperator ==
    [][/\ (sched.pc = "retry" /\ sched'.pc = "idle" /\ ret'.ops # <<>>) =>
            LET op == ret'.ops[1] IN
            /\ op.source = sched.source
            /\ hitsCounter'[getKey(op.source, 0)] = NoRecord
            /\ hitsCounter'[getKey(op.source, op.target)] = NoRecord
            /\ op.source \notin buildSourceFilter(hitsCounter').blacklist
            /\ op.target \notin buildTargetFilter(hitsCounter', op.source).blacklist
       /\ (/\ sched.pc = "retry" /\ sched'.pc = "retry" /\ sched'.i # sched.i
           /\ sched'.label = "no-replacement") =>
            /\ hitsCounter' = HitsPut(hitsCounter, sched.source, 0)
            /\ ret' = ret
       /\ (/\ sched.pc = "retry" /\ sched'.pc = "retry" /\ sched'.i # sched.i
           /\ sched'.label = "skip") =>
            /\ \E target \in ScheduleStoreIDs \ regions[sched'.region].peers :
                  hitsCounter' = HitsPut(hitsCounter, sched.source, target)
            /\ ret' = ret]_vars

\* shouldBalance has just failed a second time for the source and a target:
\* the pair's record counts the second hit, and the source has a record of
\* its own from another try
C32_Witness ==
    /\ sched.pc = "retry"
    /\ sched.label = "skip"
    /\ hitsCounter[getKey(sched.source, 0)] # NoRecord
    /\ \E target \in ScheduleStoreIDs :
          hitsCounter[getKey(sched.source, target)] = [count |-> 1, age |-> 0]
\* C39 as stated: while Schedule runs, its two lists together hold every
\* store of the cluster exactly once and hold no nil entry.
C39_TierListsHoldTheStoresOnly ==
    sched.pc \in {"select", "retry"} =>
        LET both == sched.storageStores \o sched.performanceStores IN
        /\ \A i \in 1..Len(both) : both[i] # 0
        /\ \A s \in ScheduleStoreIDs :
              Cardinality({ i \in 1..Len(both) : both[i] = s }) = 1

C34_IdenticalHeartbeatChangesNothing ==
    \A id \in RegionIDs, saveOK \in BOOLEAN, delOK \in BOOLEAN :
        LET region == GetRegion(regions, id)
            out == HeartbeatOutcome(region, saveOK, delOK)
        IN  (region # NoRegion /\ CheckStatus(hotSpotCache, region) = {}) =>
              /\ out.ret = RetOK(0)
              /\ out.regions = regions
              /\ out.stores = stores
              /\ out.kvRegions = kvRegions
              /\ out.changedRegions = changedRegions
              /\ out.prepareChecker = prepareChecker
              /\ out.hotSpotCache = hotSpotCache

\* two regions are cached and saved, each seen once by the prepare-checker,
\* and nothing waits on the channel: the state a repeated heartbeat finds
C34_Witness ==
    /\ ret = RetOK(0)
    /\ Cardinality({ id \in RegionIDs : regions[id] # NoRegion }) = 2
    /\ \A id \in RegionIDs :
          regions[id] # NoRegion => kvRegions[id] = GetMeta(regions[id])
    /\ prepareChecker = 2
    /\ changedRegions = <<>>

\* C35: for every heartbeat saveKV implies saveCache; a heartbeat that is
\* processed with saveKV set, the metadata store working and no other call
\* in between, leaves its region in the cache and that region's meta in the
\* metadata store.
C35_SavedRegionIsCached ==
    \A region \in HeartbeatInputs :
        LET origin == GetRegion(regions, region.id)
            out == HeartbeatOutcome(region, TRUE, TRUE)
        IN  /\ SaveKV(region, origin) => SaveCache(region, origin)
            /\ (out.ret.err = "ok" /\ SaveKV(region, origin)) =>
                  /\ out.regions[region.id] = region
                  /\ out.kvRegions[region.id] = GetMeta(out.regions[region.id])

\* a heartbeat of a risen version has been processed: the cache holds region
\* 1 in version 2 beside another region, and the metadata store holds the
\* meta of both
C35_Witness ==
    /\ ret.err = "ok"
    /\ regions[1] # NoRegion
    /\ regions[1].version = 2
    /\ regions[2] # NoRegion
    /\ \A id \in {1, 2} : kvRegions[id] = GetMeta(regions[id])

\* C36 as stated: with a metadata store that never fails, whenever no
\* heartbeat is in progress the metadata store holds, for a cached region,
\* the meta of the region the cache holds, however the heartbeats that
\* wrote them overlapped.
C36_StoreAndCacheAgree ==
    (\A w \in DOMAIN hb : hb[w].pc = "idle") =>
        \A id \in RegionIDs :
            regions[id] # NoRegion => kvRegions[id] = GetMeta(regions[id])

\* C37: a goroutine that is not inside processRegionHeartbeat holds neither
\* the read lock nor the write lock, whatever the call returned; one that
\* has asked for the write lock, or holds it, does not hold the read lock;
\* and a writer that asks for the lock gets it.
C37_HeartbeatHoldsNoLockAfterReturn ==
    /\ [](\A w \in DOMAIN hb :
            /\ hb[w].pc = "idle" =>
                  w \notin mu.readers /\ mu.writer # w /\ w \notin mu.waiting
            /\ hb[w].pc \in {"save", "lock", "write"} => w \notin mu.readers
            /\ w \in mu.readers <=> hb[w].pc = "read")
    /\ (3 \in mu.waiting) ~> (mu.writer = 3)

\* a heartbeat of region 2 has just been refused for the newer region 1 that
\* overlaps it, while the writer waits for the lock and no reader is left
C37_Witness ==
    /\ ret = RetStale("overlap")
    /\ \A w \in DOMAIN hb : hb[w].pc = "idle"
    /\ 3 \in mu.waiting
    /\ mu.readers = {}

\* C38: a store for which BlockStore returned success, and for which
\* UnblockStore has not been called since, is blocked in the cache, whatever
\* store heartbeat or store call runs beside it.
C38_BlockStaysInEffect ==
    \A id \in probe.blocked : stores[id] # NoStore /\ stores[id].blocked

\* what start() and stop() are said to leave alone
LifeState ==
    <<running, quit, [w \in Workers |-> workers[w]], probe.starts,
      probe.launched, probe.earlier, regions, stores, kvRegions, kvStores>>

\* C40: running is true exactly when the last successful start() has opened
\* quit and no stop() has closed it since, and then its three goroutines are
\* in their loops and are all that was launched since the start before it;
\* start() on a running cluster and stop() on a cluster that does not run
\* change nothing, start() on a cluster that is not bootstrapped launches no
\* goroutine and leaves running false.
C40_RunningInStepWithWorkers ==
    /\ [](/\ running <=> (probe.starts > 0 /\ quit = "open")
          /\ running => \A w \in Workers : workers[w] = "loop"
          /\ probe.launched = 3 * probe.starts)
    /\ [][/\ (running /\ \E outcome \in StartOutcomes, loaded \in SUBSET StoreIDs :
                            Start(outcome, loaded))
                => LifeState' = LifeState
          /\ (~running /\ ~probe.bootstrapped
                /\ \E outcome \in StartOutcomes, loaded \in SUBSET StoreIDs :
                      Start(outcome, loaded))
                => /\ ~running'
                   /\ probe.launched' = probe.launched
                   /\ \A w \in Workers : workers'[w] = workers[w]
          /\ (~running /\ StopSignal) => LifeState' = LifeState]_vars

\* the cluster was started, stopped and started again, every goroutine of
\* the first start has returned, and one more start() found it running
C40_Witness ==
    /\ probe.fn = "life"
    /\ probe.starts = 2
    /\ probe.last = "already started"
    /\ running
    /\ probe.earlier = 0

====
